---- MODULE Spec2Model ----
(***************************************************************************)
(* ReAct agent loop, message-history tree and function-call parser of      *)
(* simple_agent.py, agent.py and response_parser.py.                       *)
(*                                                                         *)
(* Text is modelled as a sequence of tokens.  A token is one of the wire   *)
(* markers, a single white-space character (" " or "\n"), or a word (a     *)
(* run of characters with no white space and no marker in it).             *)
(* Positions are 1-based; 0 plays the part of Python's -1 ("not found").   *)
(***************************************************************************)
EXTENDS Integers, Sequences, FiniteSets, TLC

\* ------------------------------------------------------------------ bounds
\* Budget of state-changing operations (loop iterations and direct API calls)
\* when the LLM may answer anything.
MaxOps == 2
\* Budget of loop iterations when the LLM never emits a decodable call: long
\* enough for run to pass its first checkpoint step.
MaxLong == 11
\* Budget of loop iterations when the LLM keeps repeating one tool call:
\* enough for the stuck detection of agent.py to fire and a step to follow
MaxStuck == 4
\* The ids handed to the setters of a message's content run from -MaxId to MaxId
MaxId == 4

\* --------------------------------------------------------- wire constants
BEGIN_CALL == "----BEGIN_FUNCTION_CALL----"
END_CALL == "----END_FUNCTION_CALL----"
ARG_SEP == "----ARG----"
\* A typo'd separator: starts with "----ARG" but is not the separator.
ARG_TYPO == "----ARG--"
\* The stray marker _sanitize_arg removes from argument values.
END_ARGUMENT == "----END_ARGUMENT----"
NL == "\n"
SP == " "
\* a carriage return: white space to strip, a line boundary to splitlines
CR == "\r"

\* ------------------------------------------------------- string helpers
Min(S) == CHOOSE m \in S : \A n \in S : m <= n
Max(S) == CHOOSE m \in S : \A n \in S : m >= n

\* the element of a one-element set; { e(x) : x \in {v} } binds x to the value
\* of v, so that e reads it without evaluating v again
the(S) == CHOOSE x \in S : TRUE

IsSpace(t) == t \in {SP, NL, CR}

lstrip(s) ==
  LET idx == {i \in 1..Len(s) : ~IsSpace(s[i])}
  IN IF idx = {} THEN <<>> ELSE SubSeq(s, Min(idx), Len(s))

rstrip(s) ==
  LET idx == {i \in 1..Len(s) : ~IsSpace(s[i])}
  IN IF idx = {} THEN <<>> ELSE SubSeq(s, 1, Max(idx))

strip(s) == lstrip(rstrip(s))

\* text.find(tok, 0, hi): the first position below hi holding tok, else 0.
find(s, tok, hi) ==
  LET idx == {i \in 1..Len(s) : i < hi /\ s[i] = tok}
  IN IF idx = {} THEN 0 ELSE Min(idx)

\* text.rfind(tok): the last position holding tok, whatever hi, else 0.
rfind_unbounded(s, tok, hi) ==
  LET idx == {i \in 1..Len(s) : s[i] = tok}
  IN IF idx = {} THEN 0 ELSE Max(idx)

\* text.rfind(tok, 0, hi): the last position below hi holding tok, else 0.
rfind(s, tok, hi) ==
  LET idx == {i \in 1..Len(s) : i < hi /\ s[i] = tok}
  IN IF idx = {} THEN 0 ELSE Max(idx)

RECURSIVE split(_, _)
split(s, sep) ==
  LET idx == {i \in 1..Len(s) : s[i] = sep}
  IN IF idx = {} THEN <<s>>
     ELSE <<SubSeq(s, 1, Min(idx) - 1)>> \o split(SubSeq(s, Min(idx) + 1, Len(s)), sep)

\* s.split(sep, 1)
split1(s, sep) ==
  LET idx == {i \in 1..Len(s) : s[i] = sep}
  IN IF idx = {} THEN <<s>>
     ELSE <<SubSeq(s, 1, Min(idx) - 1), SubSeq(s, Min(idx) + 1, Len(s))>>

RECURSIVE splitlines(_)
\* str.splitlines: the lines without their ends; "\r\n" is one line end
splitlines(s) ==
  LET ends == {i \in 1..Len(s) : s[i] \in {NL, CR}}
      at == Min(ends)
      width == IF s[at] = CR /\ at < Len(s) /\ s[at + 1] = NL THEN 2 ELSE 1
  IN IF s = <<>> THEN <<>>
     ELSE IF ends = {} THEN <<s>>
     ELSE <<SubSeq(s, 1, at - 1)>> \o splitlines(SubSeq(s, at + width, Len(s)))

RECURSIVE join(_, _)
join(lines, sep) ==
  IF lines = <<>> THEN <<>>
  ELSE IF Len(lines) = 1 THEN lines[1]
  ELSE lines[1] \o <<sep>> \o join(Tail(lines), sep)

\* sub in s, for token sequences
Contains(s, sub) ==
  \E i \in 0..(Len(s) - Len(sub)) : SubSeq(s, i + 1, i + Len(sub)) = sub

\* s.endswith(sub), for token sequences
EndsWith(s, sub) ==
  Len(sub) <= Len(s) /\ SubSeq(s, Len(s) - Len(sub) + 1, Len(s)) = sub

\* ------------------------------------------------------- ResponseParser
ParseError(msg) ==
  [ok |-> FALSE, error |-> msg, thought |-> <<>>, name |-> <<>>, arguments |-> <<>>]

arg_name(part) == strip(split1(strip(part), NL)[1])

\* a variant of arg_value that strips both ends of the value
arg_value_stripped(part) ==
  LET lines == split1(strip(part), NL)
  IN IF Len(lines) > 1 THEN strip(lines[2]) ELSE <<>>

arg_value(part) ==
  LET lines == split1(strip(part), NL)
  IN IF Len(lines) > 1 THEN rstrip(lines[2]) ELSE <<>>

\* the argument blocks that contribute an entry
arg_blocks(parts) ==
  {i \in 2..Len(parts) : strip(parts[i]) # <<>> /\ arg_name(parts[i]) # <<>>}

parse_arguments(parts) ==
  LET names == {arg_name(parts[i]) : i \in arg_blocks(parts)}
  IN [n \in names |->
        arg_value(parts[Max({i \in arg_blocks(parts) : arg_name(parts[i]) = n})])]

\* a variant of parse that accepts an empty function name
parse_any_name(text) ==
  LET end_pos == rfind(text, END_CALL, Len(text) + 1)
      begin_pos == rfind(text, BEGIN_CALL, end_pos)
      call_body == strip(SubSeq(text, begin_pos + 1, end_pos - 1))
      parts == split(call_body, ARG_SEP)
  IN IF end_pos = 0
       THEN ParseError(<<"Missing ", END_CALL, " marker in response">>)
     ELSE IF begin_pos = 0
       THEN ParseError(<<"Missing ", BEGIN_CALL, " marker in response">>)
     ELSE [ok |-> TRUE, error |-> <<>>,
           thought |-> strip(SubSeq(text, 1, begin_pos - 1)),
           name |-> strip(parts[1]),
           arguments |-> parse_arguments(parts)]

parse(text) ==
  LET end_pos == rfind(text, END_CALL, Len(text) + 1)
      begin_pos == rfind(text, BEGIN_CALL, end_pos)
      call_body == strip(SubSeq(text, begin_pos + 1, end_pos - 1))
      parts == split(call_body, ARG_SEP)
      function_name == strip(parts[1])
  IN IF end_pos = 0
       THEN ParseError(<<"Missing ", END_CALL, " marker in response">>)
     ELSE IF begin_pos = 0
       THEN ParseError(<<"Missing ", BEGIN_CALL, " marker in response">>)
     ELSE IF function_name = <<>>
       THEN ParseError(<<"Function name is empty">>)
     ELSE [ok |-> TRUE, error |-> <<>>,
           thought |-> strip(SubSeq(text, 1, begin_pos - 1)),
           name |-> function_name,
           arguments |-> parse_arguments(parts)]

\* ------------------------------------------------- values and numerals
\* The integers whose decimal form the model's texts may hold.
IntRange == -9..30

\* int(value) of a str: surrounding white space is ignored; anything that
\* is not a numeral raises ValueError.
int_ok(value) ==
  Len(strip(value)) = 1 /\ \E n \in IntRange : ToString(n) = strip(value)[1]
int_of(value) == CHOOSE n \in IntRange : ToString(n) = strip(value)[1]

\* str(n)
str_of(n) == ToString(n)

\* ------------------------------------------------------ tool registry
\* A callable: its __name__, its keyword parameters, the required ones,
\* and which implementation it is.
finish_tool ==
  [name |-> "finish", params |-> {"result"}, required |-> {"result"},
   impl |-> "finish"]
backtrack_tool ==
  [name |-> "add_instructions_and_backtrack",
   params |-> {"instructions", "at_message_id"},
   required |-> {"instructions", "at_message_id"}, impl |-> "backtrack"]
run_bash_cmd_tool ==
  [name |-> "run_bash_cmd", params |-> {"command", "description"},
   required |-> {"command"}, impl |-> "bash"]
\* envs.SWEEnvironment.run_bash_cmd(command)
swe_run_bash_cmd_tool ==
  [name |-> "run_bash_cmd", params |-> {"command"}, required |-> {"command"},
   impl |-> "bash"]
run_echo_tool ==
  [name |-> "run_echo", params |-> {"text"}, required |-> {"text"},
   impl |-> "echo"]

\* a variant of add_functions in which the first callable registered under a
\* name stays
RECURSIVE add_functions_keep_first(_, _)
add_functions_keep_first(fmap, tools) ==
  IF tools = <<>> THEN fmap
  ELSE LET t == Head(tools)
           at == {i \in 1..Len(fmap) : fmap[i].name = t.name}
           put == IF at = {} THEN Append(fmap, t) ELSE fmap
       IN add_functions_keep_first(put, Tail(tools))

\* dict assignment function_map[tool.__name__] = tool (insertion ordered)
RECURSIVE add_functions(_, _)
add_functions(fmap, tools) ==
  IF tools = <<>> THEN fmap
  ELSE LET t == Head(tools)
           at == {i \in 1..Len(fmap) : fmap[i].name = t.name}
           put == IF at = {} THEN Append(fmap, t)
                  ELSE [fmap EXCEPT ![Min(at)] = t]
       IN add_functions(put, Tail(tools))

\* tool_name in self.function_map
registered(fmap, tool_name) ==
  Len(tool_name) = 1 /\ \E i \in 1..Len(fmap) : fmap[i].name = tool_name[1]

lookup(fmap, tool_name) ==
  fmap[CHOOSE i \in 1..Len(fmap) : fmap[i].name = tool_name[1]]

\* list(self.function_map), rendered
RECURSIVE tool_names(_)
tool_names(fmap) ==
  IF fmap = <<>> THEN <<>>
  ELSE <<fmap[1].name>> \o (IF Len(fmap) > 1 THEN <<", ">> ELSE <<>>)
       \o tool_names(Tail(fmap))

\* tool_fn(**args) binds: every key is a parameter, every required
\* parameter has a key; otherwise Python raises TypeError.
binds(tool, args) ==
  /\ \A k \in DOMAIN args : Len(k) = 1 /\ k[1] \in tool.params
  /\ \A p \in tool.required : <<p>> \in DOMAIN args

\* ------------------------------------------------------ message tree
Message(role, content, unique_id, parent) ==
  [role |-> role, content |-> content, unique_id |-> unique_id,
   parent |-> parent, children |-> <<>>]

\* Python list indexing lst[i] on a list of n items: valid for -n <= i < n,
\* a negative i counting from the end; anything else raises IndexError.
index_ok(n, i) == -n <= i /\ i < n
\* the 1-based position lst[i] denotes
index_pos(n, i) == IF i >= 0 THEN i + 1 ELSE n + i + 1

\* a variant of _add_message that does not record the child with its parent
simple_add_message_unlinked(a, role, content) ==
  [a EXCEPT
     !.id_to_message = Append(@, Message(role, content, Len(@), a.current_message_id)),
     !.current_message_id = Len(a.id_to_message),
     !.root_message_id = IF @ = -1 THEN Len(a.id_to_message) ELSE @]

\* simple_agent.ReactAgent._add_message.  `a` is the agent (its fields, and
\* a.exc, the exception in flight: "" when there is none).
simple_add_message(a, role, content) ==
  LET parent_id == a.current_message_id
      msg_id == Len(a.id_to_message)
      appended == Append(a.id_to_message, Message(role, content, msg_id, parent_id))
      n == Len(appended)
  IN IF parent_id # -1 /\ ~index_ok(n, parent_id)
       THEN [a EXCEPT !.id_to_message = appended, !.exc = "IndexError"]
     ELSE [a EXCEPT
             !.id_to_message =
                IF parent_id # -1
                THEN [appended EXCEPT ![index_pos(n, parent_id)].children = Append(@, msg_id)]
                ELSE appended,
             !.current_message_id = msg_id,
             !.root_message_id = IF a.root_message_id = -1 THEN msg_id ELSE @]

\* simple_agent.ReactAgent._set_message
simple_set_message(a, idx, content) ==
  LET n == Len(a.id_to_message)
  IN IF ~index_ok(n, idx) THEN [a EXCEPT !.exc = "IndexError"]
     ELSE [a EXCEPT !.id_to_message[index_pos(n, idx)].content = content]

\* self._user_message_index: the second message __init__ seeds
simple_user_message_index == 1

\* simple_agent.ReactAgent.add_instructions_and_backtrack: the agent after
\* the call and the string it returns.
\* a variant of add_instructions_and_backtrack without the range check
simple_backtrack_unchecked(a, instructions, at_message_id) ==
  LET at == IF int_ok(at_message_id) THEN int_of(at_message_id)
            ELSE simple_user_message_index
  IN [a |-> [a EXCEPT !.instructions = instructions, !.current_message_id = at],
      ret |-> <<"Backtracked to message ", str_of(at), ".">>]

\* a variant that moves the cursor to the user message when the id is out of
\* range
simple_backtrack_to_user(a, instructions, at_message_id) ==
  LET at == IF int_ok(at_message_id) THEN int_of(at_message_id)
            ELSE simple_user_message_index
      a1 == [a EXCEPT !.instructions = instructions]
  IN IF 0 <= at /\ at < Len(a.id_to_message)
       THEN [a |-> [a1 EXCEPT !.current_message_id = at],
             ret |-> <<"Backtracked to message ", str_of(at), ".">>]
     ELSE [a |-> [a1 EXCEPT !.current_message_id = simple_user_message_index],
           ret |-> <<"Invalid backtrack id; instructions updated.">>]

simple_add_instructions_and_backtrack(a, instructions, at_message_id) ==
  LET at == IF int_ok(at_message_id) THEN int_of(at_message_id)
            ELSE simple_user_message_index
      a1 == [a EXCEPT !.instructions = instructions]
  IN IF 0 <= at /\ at < Len(a.id_to_message)
       THEN [a |-> [a1 EXCEPT !.current_message_id = at],
             ret |-> <<"Backtracked to message ", str_of(at), ".">>]
     ELSE [a |-> a1, ret |-> <<"Invalid backtrack id; instructions updated.">>]

\* simple_agent.ReactAgent.finish: both guards raise inside a try whose
\* handler swallows every exception, so the result is always returned.
simple_finish(result) == result

\* simple_agent.ReactAgent._sanitize_arg
sanitize_arg(value) ==
  LET keep(ln) == strip(ln) # <<END_ARGUMENT>>
  IN join(SelectSeq(splitlines(value), keep), NL)

\* simple_agent.ReactAgent._normalize_response
RECURSIVE collapse_end(_)
collapse_end(s) ==
  IF Len(s) < 2 THEN s
  ELSE IF s[1] = END_CALL /\ s[2] = END_CALL THEN collapse_end(Tail(s))
  ELSE <<s[1]>> \o collapse_end(Tail(s))

\* a variant that takes every line holding the separator for a separator line
normalize_response_greedy(text) ==
  LET lines == splitlines(text)
      holds_arg(ln) == \E i \in 1..Len(ln) : ln[i] \in {ARG_SEP, ARG_TYPO}
      norm_lines == [i \in 1..Len(lines) |->
                       IF holds_arg(lines[i]) THEN <<ARG_SEP>> ELSE lines[i]]
  IN collapse_end(join(norm_lines, NL))

normalize_response(text) ==
  LET lines == splitlines(text)
      starts_arg(ln) == strip(ln) # <<>> /\ strip(ln)[1] \in {ARG_SEP, ARG_TYPO}
      norm_lines == [i \in 1..Len(lines) |->
                       IF starts_arg(lines[i]) THEN <<ARG_SEP>> ELSE lines[i]]
  IN collapse_end(join(norm_lines, NL))

\* --------------------------------------------- simple_agent.ReactAgent.run
FormatErrorMessage ==
  <<"Format error: The response must end with exactly one function call using\n",
    BEGIN_CALL, " ... ", END_CALL, ".\nRespond again and include a tool call.">>

StuckInstructions == <<"STUCK: Previous attempts failed. Pivot strategy: ...">>

SimpleStepLimit == <<"Agent reached maximum steps without calling finish.">>

\* str(e) of the TypeError Python raises when tool_fn(**args) does not bind
TypeErrorMessage(tool) ==
  <<tool.name, "() got an unexpected keyword argument or misses a required one">>

\* what the git commands of finish find in the working tree: "dirty" when
\* status and diff show changes, "clean" when they show none
git_report(ext) == IF ext.changed THEN "dirty" ELSE "clean"

\* result = tool_fn(**args): the agent afterwards, whether the call raised,
\* the value returned or str(e), and what git reported to the callable if it
\* asked ("" if not).  `ext` is what an external tool does.
simple_call_tool(a, tool, args, ext) ==
  IF ~binds(tool, args)
    THEN [a |-> a, raised |-> TRUE, value |-> TypeErrorMessage(tool), git |-> ""]
  ELSE IF tool.impl = "finish"
    THEN [a |-> a, raised |-> FALSE, value |-> simple_finish(args[<<"result">>]),
          git |-> git_report(ext)]
  ELSE IF tool.impl = "backtrack"
    THEN LET r == simple_add_instructions_and_backtrack(
                    a, args[<<"instructions">>], args[<<"at_message_id">>])
         IN [a |-> r.a, raised |-> FALSE, value |-> r.ret, git |-> ""]
  ELSE IF tool.impl = "echo"
    THEN [a |-> a, raised |-> FALSE, value |-> args[<<"text">>], git |-> ""]
  ELSE [a |-> a, raised |-> ext.raised, value |-> ext.value, git |-> ""]

\* the two assignments that reset the failure streak; skipped when an
\* exception is in flight
\* a variant that leaves the streak as it is
simple_keep_streak(a) == a

simple_reset_streak(a) ==
  IF a.exc # "" THEN a
  ELSE [a EXCEPT !.last_tool_error_streak = 0, !.last_tool_name = <<>>]

\* a variant of the except-branch that counts every failure, whatever the
\* tool that failed before
simple_tool_failed_any_tool(a, tool_name, hint) ==
  LET counted == [a EXCEPT !.last_tool_name = tool_name,
                           !.last_tool_error_streak = @ + 1]
  IN IF counted.last_tool_error_streak >= 2
       THEN the({ simple_reset_streak(
                    simple_add_message(back, "system",
                      <<"AUTO-BACKTRACK applied due to repeated '">> \o tool_name
                        \o <<"' errors: ">> \o hint)) :
                  back \in { simple_add_instructions_and_backtrack(
                               counted, StuckInstructions,
                               <<str_of(simple_user_message_index)>>).a } })
     ELSE simple_add_message(counted, "system",
            <<"Tool '">> \o tool_name \o <<"' error: ">> \o hint)

\* the except-branch of the tool call (lines 270-299)
simple_tool_failed(a, tool_name, hint) ==
  LET counted ==
        IF tool_name = a.last_tool_name
        THEN [a EXCEPT !.last_tool_error_streak = @ + 1]
        ELSE [a EXCEPT !.last_tool_name = tool_name, !.last_tool_error_streak = 1]
  IN IF counted.last_tool_error_streak >= 2
       THEN the({ simple_reset_streak(
                    simple_add_message(back, "system",
                      <<"AUTO-BACKTRACK applied due to repeated '">> \o tool_name
                        \o <<"' errors: ">> \o hint)) :
                  back \in { simple_add_instructions_and_backtrack(
                               counted, StuckInstructions,
                               <<str_of(simple_user_message_index)>>).a } })
     ELSE simple_add_message(counted, "system",
            <<"Tool '">> \o tool_name \o <<"' error: ">> \o hint)

\* func(**args) as an observer sees it: the callable's name, whether it
\* raised, what it returned (or the text of what it raised), and what git
\* reported to it
observed(tool_name, call) ==
  [name |-> tool_name, raised |-> call.raised, value |-> call.value,
   git |-> call.git]

\* what one iteration hands back to run: the agent afterwards, whether run
\* returned and what, and the calls of callables the iteration made
simple_outcome(a, returned, result, invoked) ==
  [a |-> a, returned |-> returned, result |-> result, invoked |-> invoked]

\* a variant of simple_after_call without the early return for finish
simple_after_call_no_return(call, tool_name) ==
  IF call.raised
    THEN simple_outcome(simple_tool_failed(call.a, tool_name, call.value), FALSE, <<>>,
                        <<observed(tool_name, call)>>)
  ELSE the({ simple_outcome(simple_reset_streak(noted), FALSE, <<>>,
                            <<observed(tool_name, call)>>) :
             noted \in { simple_add_message(call.a, "system",
                           <<"Result:", NL>> \o call.value) } })

\* lines 301-311: the tool call `call` is over
simple_after_call(call, tool_name) ==
  IF call.raised
    THEN simple_outcome(simple_tool_failed(call.a, tool_name, call.value), FALSE, <<>>,
                        <<observed(tool_name, call)>>)
  ELSE IF tool_name = <<"finish">>
    THEN simple_outcome(simple_reset_streak(call.a), TRUE, call.value,
                        <<observed(tool_name, call)>>)
  ELSE the({ simple_outcome(simple_reset_streak(noted), FALSE, <<>>,
                            <<observed(tool_name, call)>>) :
             noted \in { simple_add_message(call.a, "system",
                           <<"Result:", NL>> \o call.value) } })

\* a variant of simple_dispatch that treats an unregistered name as a failed
\* call of that tool
simple_dispatch_unknown_fails(a1, parsed, ext) ==
  IF ~parsed.ok
    THEN simple_outcome(simple_add_message(a1, "system", FormatErrorMessage),
                        FALSE, <<>>, <<>>)
  ELSE IF ~registered(a1.function_map, parsed.name)
    THEN simple_outcome(
           simple_tool_failed(a1, parsed.name,
             <<"Unknown tool '">> \o parsed.name \o <<"'. Available: [">>
               \o tool_names(a1.function_map) \o <<"]">>),
           FALSE, <<>>, <<>>)
  ELSE the({ simple_after_call(call, parsed.name) :
             call \in { simple_call_tool(
                          a1, lookup(a1.function_map, parsed.name),
                          [k \in DOMAIN parsed.arguments |->
                             sanitize_arg(parsed.arguments[k])], ext) } })

\* lines 243-269: a1 is the agent with the assistant message appended,
\* parsed what parser.parse made of the normalised response
simple_dispatch(a1, parsed, ext) ==
  LET tool_name == parsed.name
      args == [k \in DOMAIN parsed.arguments |-> sanitize_arg(parsed.arguments[k])]
  IN IF ~parsed.ok
       THEN simple_outcome(simple_add_message(a1, "system", FormatErrorMessage),
                           FALSE, <<>>, <<>>)
     ELSE IF ~registered(a1.function_map, tool_name)
       THEN simple_outcome(
              simple_add_message(a1, "system",
                <<"Unknown tool '">> \o tool_name \o <<"'. Available: [">>
                  \o tool_names(a1.function_map) \o <<"]">>),
              FALSE, <<>>, <<>>)
     ELSE the({ simple_after_call(call, tool_name) :
                call \in { simple_call_tool(a1, lookup(a1.function_map, tool_name),
                                            args, ext) } })

\* a variant of simple_iteration that records the response only once it has
\* been decoded
simple_iteration_parse_first(a, response, ext) ==
  the({ IF ~parsed.ok
          THEN simple_outcome(simple_add_message(a, "system", FormatErrorMessage),
                              FALSE, <<>>, <<>>)
        ELSE simple_dispatch(simple_add_message(a, "assistant", response), parsed, ext) :
        parsed \in { parse(normalize_response(response)) } })

\* One iteration of the for loop, from the LLM's response on (lines 240-311)
simple_iteration(a, response, ext) ==
  the({ IF a1.exc # "" THEN simple_outcome(a1, FALSE, <<>>, <<>>)
        ELSE simple_dispatch(a1, parsed, ext) :
        a1 \in { simple_add_message(a, "assistant", response) },
        parsed \in { parse(normalize_response(response)) } })

\* ------------------------------------------------------ agent.ReactAgent
\* The ids __init__ gets from its three add_message calls.
system_message_id == 0
user_message_id == 1
instructions_message_id == 2

\* str(e) of the exception in flight
exc_message(exc) ==
  IF exc = "IndexError" THEN <<"list index out of range">>
  ELSE IF exc = "RuntimeError" THEN <<"Failed to generate response from OpenAI: ", "timeout">>
  ELSE <<exc>>

\* agent.ReactAgent.add_message
add_message(a, role, content) ==
  LET message_id == Len(a.id_to_message)
      appended == Append(a.id_to_message,
                         Message(role, content, message_id, a.current_message_id))
      n == Len(appended)
  IN IF a.current_message_id # -1 /\ ~index_ok(n, a.current_message_id)
       THEN [a EXCEPT !.id_to_message = appended, !.exc = "IndexError"]
     ELSE [a EXCEPT
             !.id_to_message =
                IF a.current_message_id # -1
                THEN [appended EXCEPT
                        ![index_pos(n, a.current_message_id)].children = Append(@, message_id)]
                ELSE appended,
             !.current_message_id = message_id,
             !.root_message_id = IF a.root_message_id = -1 THEN message_id ELSE @]

\* agent.ReactAgent.set_message_content
set_message_content(a, message_id, content) ==
  LET n == Len(a.id_to_message)
  IN IF ~index_ok(n, message_id) THEN [a EXCEPT !.exc = "IndexError"]
     ELSE [a EXCEPT !.id_to_message[index_pos(n, message_id)].content = content]

\* instructions[:50] and error_msg[:30]: a prefix by characters; on token
\* sequences the first token stands for it.
prefix(s) == IF s = <<>> THEN <<>> ELSE <<s[1]>>

\* a variant of add_instructions_and_backtrack that drops the messages after
\* the target instead of leaving them in the list
backtrack_truncating(a, instructions, at_message_id) ==
  IF ~int_ok(at_message_id)
    THEN [a |-> [a EXCEPT !.exc = "ValueError"],
          ret |-> <<"invalid literal for int() with base 10">>]
  ELSE [a |-> [a EXCEPT
                 !.id_to_message =
                    SubSeq(@, 1, Max({3, Min({Len(@), int_of(at_message_id) + 1})})),
                 !.current_message_id = int_of(at_message_id)],
        ret |-> <<"Instructions updated and backtracked to message ",
                  str_of(int_of(at_message_id)), ".">>]

\* agent.ReactAgent.add_instructions_and_backtrack: the agent after the call
\* (a.exc = "ValueError" when int() rejects the id) and the string returned.
add_instructions_and_backtrack(a, instructions, at_message_id) ==
  IF ~int_ok(at_message_id)
    THEN [a |-> [a EXCEPT !.exc = "ValueError"],
          ret |-> <<"invalid literal for int() with base 10">>]
  ELSE LET at == int_of(at_message_id)
           a1 == set_message_content(a, instructions_message_id, instructions)
       IN IF a1.exc # "" THEN [a |-> a1, ret |-> exc_message(a1.exc)]
          ELSE [a |-> [a1 EXCEPT !.current_message_id = at,
                                 !.failed_approaches = Append(@, prefix(instructions)),
                                 !.consecutive_syntax_errors = 0,
                                 !.consecutive_not_found = 0],
                ret |-> <<"Instructions updated and backtracked to message ",
                          str_of(at), ".">>]

\* "w" in text, for the key words the agent looks for: a token holds the
\* word when it is listed here.
Holding(w) ==
  CASE w = "test" -> {"test", "pytest", "run_tests", "test_x.py"}
    [] w = "pytest" -> {"pytest"}
    [] w = "run_tests" -> {"run_tests"}
    [] w = "test_" -> {"test_x.py"}
    [] w = ".py" -> {"test_x.py"}
    [] OTHER -> {w}

has_word(text, w) == \E i \in 1..Len(text) : text[i] \in Holding(w)

\* agent.ReactAgent._is_stuck: the agent afterwards and the verdict
is_stuck(a, error_msg, function_name) ==
  LET syn == IF has_word(error_msg, "SyntaxError") \/ has_word(error_msg, "IndentationError")
             THEN a.consecutive_syntax_errors + 1 ELSE 0
      nf == IF has_word(error_msg, "FileNotFoundError") \/ has_word(error_msg, "No such file")
            THEN a.consecutive_not_found + 1 ELSE 0
      action_key == function_name \o <<":">> \o prefix(error_msg)
      appended == Append(a.recent_actions, action_key)
      recent == IF Len(appended) > 10 THEN Tail(appended) ELSE appended
      last5 == {recent[i] : i \in (Len(recent) - 4)..Len(recent)}
  IN [a |-> [a EXCEPT !.consecutive_syntax_errors = syn,
                      !.consecutive_not_found = nf,
                      !.recent_actions = recent],
      stuck |-> \/ syn >= 3
                \/ nf >= 3
                \/ (Len(recent) >= 5 /\ Cardinality(last5) <= 2)]

alternative_strategies ==
  << <<"STUCK DETECTED! Try a different approach: ...">>,
     <<"STILL STUCK! Different strategy: ...">>,
     <<"FINAL ATTEMPT! Radical rethink: ...">> >>

\* agent.ReactAgent._auto_backtrack
auto_backtrack(a, step) ==
  LET strategy_index == Len(a.failed_approaches) % Len(alternative_strategies)
      strategy == alternative_strategies[strategy_index + 1]
      backtrack_to == Max({instructions_message_id + 1, a.current_message_id - 20})
  IN the({ IF a1.exc # "" THEN a1
           ELSE add_instructions_and_backtrack(a1, strategy, <<str_of(backtrack_to)>>).a :
           a1 \in { add_message(a, "system",
                      <<"AUTO-BACKTRACK TRIGGERED (Step ", str_of(step), ")">> \o strategy
                        \o <<"Backtracking to message ", str_of(backtrack_to),
                             " to try fresh approach.">>) } })

\* agent.py enforce_comprehensive_testing: <<>> when it passes, else str(e)
enforce_comprehensive_testing(agent_messages) ==
  LET of_role(r) == {i \in 1..Len(agent_messages) : agent_messages[i].role = r}
      ran_any_test ==
        \E i \in of_role("assistant") :
          \/ has_word(agent_messages[i].content, "pytest")
          \/ has_word(agent_messages[i].content, "python -c")
          \/ has_word(agent_messages[i].content, "python -m")
          \/ has_word(agent_messages[i].content, "test")
      has_passed ==
        \E i \in of_role("system") : has_word(agent_messages[i].content, "PASSED")
      pytest_unavailable ==
        \E i \in of_role("system") :
          has_word(agent_messages[i].content, "No module named pytest")
  IN IF ~pytest_unavailable /\ ran_any_test /\ ~has_passed
       THEN <<"Tests ran but no ", "PASSED", " found! Verify: grep PASSED /tmp/out.txt">>
     ELSE IF ~ran_any_test
       THEN <<"No testing performed! Run: python -c '<reproduction_case>'">>
     ELSE <<>>

FinishWarning == <<"WARNING: No evidence of comprehensive testing!">>

\* a variant of finish that validates nothing
finish_unchecked(a, result, ext) ==
  [a |-> a, raised |-> FALSE, value |-> result, git |-> git_report(ext)]

\* agent.ReactAgent.finish.  ext.syntax: the modified files hold a syntax
\* error (the git/ast check of lines 346-382).  The patch check of lines
\* 384-416 raises inside a try that catches every Exception: it has no effect.
finish(a, result, ext) ==
  LET refused == enforce_comprehensive_testing(a.id_to_message)
      noted == add_message(a, "system", refused)
      first == Max({1, Len(a.id_to_message) - 19})
      recent_messages == SubSeq(a.id_to_message, first, Len(a.id_to_message))
      said(w) == \E i \in 1..Len(recent_messages) :
                    /\ recent_messages[i].role = "assistant"
                    /\ has_word(recent_messages[i].content, w)
      has_run_tests == said("run_tests") \/ said("pytest")
      has_comprehensive_test == said("test_") /\ (said(".py") \/ said("tests/"))
  IN IF refused # <<>>
       THEN IF noted.exc # ""
              THEN [a |-> noted, raised |-> TRUE, value |-> exc_message(noted.exc),
                    git |-> ""]
            ELSE [a |-> noted, raised |-> TRUE, value |-> refused, git |-> ""]
     ELSE IF ext.syntax
       THEN [a |-> a, raised |-> TRUE,
             value |-> <<"CANNOT FINISH: Python syntax errors detected!">>,
             git |-> git_report(ext)]
     ELSE IF ~(has_run_tests /\ has_comprehensive_test)
       THEN [a |-> a, raised |-> FALSE, value |-> result \o FinishWarning,
             git |-> git_report(ext)]
     ELSE [a |-> a, raised |-> FALSE, value |-> result, git |-> git_report(ext)]

\* result = func(**arguments) in agent.ReactAgent.run
call_tool(a, tool, arguments, ext) ==
  IF ~binds(tool, arguments)
    THEN [a |-> a, raised |-> TRUE, value |-> TypeErrorMessage(tool), git |-> ""]
  ELSE IF tool.impl = "finish"
    THEN finish(a, arguments[<<"result">>], ext)
  ELSE IF tool.impl = "backtrack"
    THEN LET r == add_instructions_and_backtrack(
                    a, arguments[<<"instructions">>], arguments[<<"at_message_id">>])
         IN [a |-> [r.a EXCEPT !.exc = ""], raised |-> r.a.exc # "", value |-> r.ret,
             git |-> ""]
  ELSE IF tool.impl = "echo"
    THEN [a |-> a, raised |-> FALSE, value |-> arguments[<<"text">>], git |-> ""]
  ELSE [a |-> a, raised |-> ext.raised, value |-> ext.value, git |-> ""]

\* the steps at which run adds a checkpoint message
checkpoints == {10, 20, 35, 50, 70, 85}

\* get_context's walk from the cursor along the parent links: "ok", or
\* "IndexError" (a link outside the list), or "diverges" (the walk comes back
\* to an id it has seen, so the while loop never ends); and the path walked,
\* root first.
RECURSIVE walk(_, _, _)
walk(id_to_message, message_id, seen) ==
  LET n == Len(id_to_message)
  IN IF message_id = -1 THEN [status |-> "ok", path |-> <<>>]
     ELSE IF ~index_ok(n, message_id) THEN [status |-> "IndexError", path |-> <<>>]
     ELSE IF message_id \in seen THEN [status |-> "diverges", path |-> <<>>]
     ELSE CHOOSE r \in
            { [status |-> up.status, path |-> Append(up.path, message_id)] :
                up \in { walk(id_to_message,
                              id_to_message[index_pos(n, message_id)].parent,
                              seen \cup {message_id}) } } : TRUE

get_context(a) == walk(a.id_to_message, a.current_message_id, {})

\* -------------------------------------------------- the context strings
\* ResponseParser.response_format, abridged
response_format ==
  <<NL, "your_thoughts_here", NL, BEGIN_CALL, NL, "function_name", NL, ARG_SEP, NL,
    "param_name_1", NL, "param_value_1", NL, END_CALL, NL>>

\* "Function: {name}{signature}\n{docstring}\n" of each registered tool,
\* joined by newlines
tool_description(tool) ==
  <<"Function: ", tool.name, "(signature)", NL, "docstring", NL>>
tool_descriptions(fmap) ==
  join([i \in 1..Len(fmap) |-> tool_description(fmap[i])], NL)

\* the tools and the response format, as both agents append them
tools_and_format(fmap) ==
  <<"--- AVAILABLE TOOLS ---", NL>> \o tool_descriptions(fmap)
    \o <<NL, NL, "--- RESPONSE FORMAT ---", NL>> \o response_format \o <<NL>>

\* simple_agent.ReactAgent._build_context, lines 112-116
simple_system_prompt == <<"ROLE: Bash-only coding agent fixing a single bug ...">>
simple_system_block(a) ==
  simple_system_prompt \o <<NL, NL>> \o tools_and_format(a.function_map)

\* a variant that keeps the last three ids of the path only
simple_visible_ids_windowed(a) ==
  LET path == walk(a.id_to_message, a.current_message_id, {}).path
  IN SubSeq(path, Max({1, Len(path) - 2}), Len(path))

\* lines 119-124: the ids from the root to the cursor
simple_visible_ids(a) == walk(a.id_to_message, a.current_message_id, {}).path

\* "[{role}]\n{content}\n" of one message
simple_rendered(msg) == <<"[", msg.role, "]", NL>> \o msg.content \o <<NL>>

\* a variant of the transcript that leaves out every system-role message
simple_transcript_parts_no_system(a) ==
  LET visible == simple_visible_ids(a)
      shown == SelectSeq(visible, LAMBDA mid : a.id_to_message[mid + 1].role # "system")
  IN << <<"[", "system", "]", NL>> \o simple_system_block(a) \o <<NL>> >>
       \o [i \in 1..Len(shown) |-> simple_rendered(a.id_to_message[shown[i] + 1])]

\* lines 126-132: the system block, then the visible messages but the root
\* system message
simple_transcript_parts(a) ==
  LET visible == simple_visible_ids(a)
      shown == SelectSeq(visible,
                 LAMBDA mid : ~(a.id_to_message[mid + 1].role = "system"
                                /\ mid = a.root_message_id))
  IN << <<"[", "system", "]", NL>> \o simple_system_block(a) \o <<NL>> >>
       \o [i \in 1..Len(shown) |-> simple_rendered(a.id_to_message[shown[i] + 1])]

simple_build_context(a) == join(simple_transcript_parts(a), NL)

\* agent.ReactAgent.message_id_to_context
message_id_to_context(a, message_id) ==
  LET message == a.id_to_message[index_pos(Len(a.id_to_message), message_id)]
      header == <<"----------------------------", NL, "|MESSAGE(role=\"", message.role,
                  "\", id=", str_of(message.unique_id), ")|", NL>>
  IN IF message.role = "system"
       THEN header \o message.content \o <<NL>> \o tools_and_format(a.function_map)
     ELSE IF message.role = "instructor"
       THEN header
              \o <<"YOU MUST FOLLOW THE FOLLOWING INSTRUCTIONS AT ANY COST. OTHERWISE, YOU WILL BE DECOMISSIONED.", NL>>
              \o message.content \o <<NL>>
     ELSE header \o message.content \o <<NL>>

\* lines 299-303 of get_context, when the walk ends: the parts and the string
context_parts(a) ==
  LET path == get_context(a).path
  IN [i \in 1..Len(path) |-> message_id_to_context(a, path[i])]
RECURSIVE concat(_)
concat(parts) == IF parts = <<>> THEN <<>> ELSE parts[1] \o concat(Tail(parts))
context_string(a) == concat(context_parts(a))

\* {arguments} in the reflection prompt
RECURSIVE render_arguments(_, _)
render_arguments(arguments, keys) ==
  IF keys = {} THEN <<>>
  ELSE LET k == CHOOSE k \in keys : TRUE
       IN k \o <<": ">> \o arguments[k] \o <<", ">>
          \o render_arguments(arguments, keys \ {k})

reflection_prompt(function_name, arguments, error_str) ==
  LET is_indentation_error ==
        has_word(error_str, "IndentationError") \/ has_word(error_str, "unexpected indent")
      is_test_failure ==
        \/ has_word(function_name, "test")
        \/ has_word(error_str, "FAILED")
        \/ has_word(error_str, "AssertionError")
  IN <<"The tool call ">> \o function_name \o <<" with ">>
       \o render_arguments(arguments, DOMAIN arguments)
       \o <<" failed. Error: ">> \o error_str \o <<" Reflection: ...">>
       \o (IF is_indentation_error /\ function_name = <<"check_python_syntax">>
           THEN <<"INDENTATION ERROR DETECTED! ...">> ELSE <<>>)
       \o (IF is_test_failure THEN <<"TEST FAILURE DETECTED! ...">> ELSE <<>>)

\* the handler of the inner try (lines 576-638); a.exc is set when one of
\* its own add_message calls raises
tool_failed(a, function_name, arguments, error_str, step) ==
  the({ IF a1.exc # "" THEN a1
        ELSE the({ IF verdict.stuck THEN auto_backtrack(verdict.a, step)
                   ELSE add_message(verdict.a, "system",
                          reflection_prompt(function_name, arguments, error_str)) :
                   verdict \in { is_stuck(a1, error_str, function_name) } }) :
        a1 \in { add_message([a EXCEPT !.exc = ""], "system",
                   <<"Error executing tool '">> \o function_name \o <<"': ">>
                     \o error_str) } })

\* a variant of loop_failed that records nothing and raises again
loop_failed_reraising(a, error_str) == [a EXCEPT !.exc = "ValueError"]

\* the handler of the outer try (lines 640-688); a.exc is set when its
\* add_message raises, and then the exception leaves run
loop_failed(a, error_str) ==
  add_message([a EXCEPT !.exc = ""], "system",
    <<"Error in agent loop: ">> \o error_str
      \o (IF Contains(error_str, <<"Missing ", BEGIN_CALL>>)
            THEN <<"RESPONSE FORMAT ERROR: You did not call any tool! ...">>
          ELSE IF Contains(error_str, <<"Function name is empty">>)
            THEN <<"RESPONSE FORMAT ERROR: Function name is missing! ...">>
          ELSE <<>>))

AgentStepLimit(max_steps) ==
  <<"Agent reached maximum steps (", str_of(max_steps), ") without completing the task.">>

\* What one iteration of agent.ReactAgent.run hands back: the agent
\* afterwards (a.exc names the exception that left run), status "continue",
\* "returned", "raised" or "hung", the value returned, and the numbers of
\* LLM calls made, and the calls of callables made.
outcome(a, status, value, calls, invoked) ==
  [a |-> a, status |-> status, result |-> value, llm_calls |-> calls,
   invoked |-> invoked]

\* an exception reaches the outer handler
caught_by_loop(a, error_str, calls, invoked) ==
  the({ outcome(h, IF h.exc # "" THEN "raised" ELSE "continue", <<>>, calls, invoked) :
        h \in { loop_failed(a, error_str) } })

\* an exception reaches the inner handler
caught_by_tool_try(a, function_name, arguments, error_str, step, invoked) ==
  the({ IF h.exc # "" THEN caught_by_loop(h, exc_message(h.exc), 1, invoked)
        ELSE outcome(h, "continue", <<>>, 1, invoked) :
        h \in { tool_failed(a, function_name, arguments, error_str, step) } })

\* a variant of lines 568-574 that returns whatever the finish call did
after_call_finish_first(call, function_name, arguments, step) ==
  IF function_name = <<"finish">>
    THEN outcome(call.a, "returned", call.value, 1, <<observed(function_name, call)>>)
  ELSE IF call.raised
    THEN caught_by_tool_try(call.a, function_name, arguments, call.value, step,
                            <<observed(function_name, call)>>)
  ELSE the({ IF a3.exc # ""
               THEN caught_by_tool_try(a3, function_name, arguments,
                                       exc_message(a3.exc), step,
                                       <<observed(function_name, call)>>)
             ELSE outcome(a3, "continue", <<>>, 1, <<observed(function_name, call)>>) :
             a3 \in { add_message(call.a, "system",
                        <<"Tool '">> \o function_name \o <<"' executed successfully. ">>
                          \o <<"Result:", NL>> \o call.value) } })

\* lines 568-574 after result = func(**arguments)
after_call(call, function_name, arguments, step) ==
  IF call.raised
    THEN caught_by_tool_try(call.a, function_name, arguments, call.value, step,
                            <<observed(function_name, call)>>)
  ELSE IF function_name = <<"finish">>
    THEN outcome(call.a, "returned", call.value, 1, <<observed(function_name, call)>>)
  ELSE the({ IF a3.exc # ""
               THEN caught_by_tool_try(a3, function_name, arguments,
                                       exc_message(a3.exc), step,
                                       <<observed(function_name, call)>>)
             ELSE outcome(a3, "continue", <<>>, 1, <<observed(function_name, call)>>) :
             a3 \in { add_message(call.a, "system",
                        <<"Tool '">> \o function_name \o <<"' executed successfully. ">>
                          \o <<"Result:", NL>> \o call.value) } })

\* lines 557-568: a1 is the agent with the assistant message appended
dispatch(a1, parsed, step, ext) ==
  IF ~parsed.ok THEN caught_by_loop(a1, parsed.error, 1, <<>>)
  ELSE IF ~registered(a1.function_map, parsed.name)
    THEN the({ IF a2.exc # "" THEN caught_by_loop(a2, exc_message(a2.exc), 1, <<>>)
               ELSE outcome(a2, "continue", <<>>, 1, <<>>) :
               a2 \in { add_message(a1, "system",
                          <<"Error: Function '">> \o parsed.name
                            \o <<"' not found in available tools.">>) } })
  ELSE the({ after_call(call, parsed.name, parsed.arguments, step) :
             call \in { call_tool(a1, lookup(a1.function_map, parsed.name),
                                  parsed.arguments, ext) } })

\* lines 552-556: a0 is the agent after the checkpoint message, if any
try_body(a0, step, llm, ext) ==
  LET context == get_context(a0).status
  IN IF context = "diverges" THEN outcome(a0, "hung", <<>>, 0, <<>>)
     ELSE IF context = "IndexError"
       THEN caught_by_loop(a0, exc_message("IndexError"), 0, <<>>)
     ELSE IF llm.raised THEN caught_by_loop(a0, exc_message("RuntimeError"), 1, <<>>)
     ELSE the({ IF a1.exc # "" THEN caught_by_loop(a1, exc_message(a1.exc), 1, <<>>)
                ELSE dispatch(a1, parsed, step, ext) :
                a1 \in { add_message(a0, "assistant", llm.text) },
                parsed \in { parse(llm.text) } })

\* One iteration of the for loop of agent.ReactAgent.run (lines 548-688).
\* llm: what self.llm.generate does (raise, or return llm.text); ext: what an
\* external tool or the git check does.
iteration(a, step, llm, ext) ==
  the({ IF a0.exc # "" THEN outcome(a0, "raised", <<>>, 0, <<>>)
        ELSE try_body(a0, step, llm, ext) :
        a0 \in { IF step \in checkpoints
                 THEN add_message(a, "system", <<"Checkpoint at step ", str_of(step)>>)
                 ELSE a } })

\* ----------------------------------------------------- the environment
\* The canonical template (ResponseParser.response_format): one call with
\* the given arguments, each a pair <<name, value>>.
\* a variant of the template with the value on the line of the name
RECURSIVE encode_arguments_one_line(_)
encode_arguments_one_line(args) ==
  IF args = <<>> THEN <<>>
  ELSE <<ARG_SEP, NL, args[1][1], SP>> \o args[1][2] \o <<NL>>
       \o encode_arguments_one_line(Tail(args))

RECURSIVE encode_arguments(_)
encode_arguments(args) ==
  IF args = <<>> THEN <<>>
  ELSE <<ARG_SEP, NL, args[1][1], NL>> \o args[1][2] \o <<NL>>
       \o encode_arguments(Tail(args))

encode(name, args) ==
  <<BEGIN_CALL, NL, name, NL>> \o encode_arguments(args) \o <<END_CALL>>

Backtrack(at) ==
  encode("add_instructions_and_backtrack",
         << <<"instructions", <<"pivot">> >>, <<"at_message_id", <<at>> >> >>)

\* What the LLM may answer.  Undecodable texts:
NoCallResponses == { <<"thinking">>, <<"thinking", END_CALL>> }

FinishOk == <<"done", NL>> \o encode("finish", << <<"result", <<"ok">> >> >>)
FinishMarked ==
  encode("finish", << <<"result", <<"ok", NL, END_ARGUMENT, NL, "end">> >> >>)
EchoHello == encode("run_echo", << <<"text", <<"hello">> >> >>)
BashTest == encode("run_bash_cmd", << <<"command", <<"pytest", SP, "test_x.py">> >> >>)
\* a finish whose own text names a test run
FinishTested ==
  encode("finish", << <<"result", <<"pytest", SP, "test_x.py", SP, "ok">> >> >>)
\* a finish whose text has the word test and names no test run
FinishSaysTest == encode("finish", << <<"result", <<"test", SP, "ok">> >> >>)

CallResponses ==
  { FinishOk, FinishMarked, encode("finish", <<>>), EchoHello,
    encode("nope", <<>>), BashTest }

SimpleResponses ==
  {<<"thinking">>} \cup CallResponses \cup {Backtrack("0"), Backtrack("9"), Backtrack("x")}

AgentResponses ==
  NoCallResponses \cup (CallResponses \ {FinishMarked})
    \cup {FinishTested, FinishSaysTest}
    \cup {Backtrack("-1"), Backtrack("-2"), Backtrack("9"), Backtrack("x")}

Returns(text) == [raised |-> FALSE, text |-> text]
Raises == [raised |-> TRUE, text |-> <<>>]

\* self.llm: the outcomes generate may have
FullLLM(kind) ==
  {Returns(t) : t \in IF kind = "simple" THEN SimpleResponses ELSE AgentResponses}
    \cup {Raises}

\* an LLM that runs the tests and passes to finish a result of its choice,
\* the texts run returns at the step limit among them
\* a command with the description MinimalSWEEnvironment.run_bash_cmd takes
BashDescribed ==
  encode("run_bash_cmd", << <<"command", <<"ls">> >>, <<"description", <<"list">> >> >>)

\* an LLM that runs commands
RegistryLLM == { Returns(BashDescribed), Returns(EchoHello) }

\* the lists of tools a caller registers: the two environments' run_bash_cmd
\* are different callables of one name
ToolLists ==
  [ minimal |-> <<run_bash_cmd_tool, run_echo_tool>>,
    swe |-> <<swe_run_bash_cmd_tool>>,
    both |-> <<run_bash_cmd_tool, swe_run_bash_cmd_tool>>,
    builtin |-> <<backtrack_tool>> ]

\* an LLM that runs a command, goes back to the user message, or says
\* nothing to decode
BranchingLLM == { Returns(BashTest), Returns(Backtrack("1")), Returns(<<"thinking">>) }

\* an LLM that runs the same command in every step, in an environment where
\* the command fails every time
PersistentLLM == { Returns(BashTest) }

\* an LLM that keeps running the same command, or says nothing to decode
StubbornLLM == { Returns(BashTest), Returns(<<"thinking">>) }

SentinelLLM ==
  { Returns(BashTest), Returns(FinishOk),
    Returns(encode("finish",
      << <<"result", <<"Agent reached maximum steps without calling finish.">> >> >>)),
    Returns(encode("finish",
      << <<"result", <<"Agent reached maximum steps (", "2",
                       ") without completing the task.">> >> >>)) }

\* the LLMs that never emit a decodable call: each always gives one answer
SilentLLMs == {{Returns(t)} : t \in NoCallResponses}

\* What an external tool and the git commands of finish may do: the tool
\* returns or raises; the working tree has changes or none (changed), and a
\* changed file may hold a syntax error (syntax)
ExtOutcomes ==
  { [raised |-> FALSE, value |-> <<"out">>, syntax |-> FALSE, changed |-> TRUE],
    [raised |-> TRUE, value |-> <<"SyntaxError", ": invalid syntax">>, syntax |-> TRUE,
     changed |-> TRUE],
    [raised |-> FALSE, value |-> <<"out">>, syntax |-> FALSE, changed |-> FALSE] }

Task == <<"fix the bug">>

\* The ids a caller passes to add_instructions_and_backtrack
ApiIds == {"-2", "-1", "0", "1", "2", "9"}

\* The tools the drivers register (run_agent.py:70-75, run_test_subset.py:64-75)
simple_driver_tools == <<run_bash_cmd_tool, run_echo_tool, backtrack_tool>>
agent_driver_tools == <<swe_run_bash_cmd_tool, run_echo_tool, backtrack_tool>>

\* ------------------------------------------ the inputs of ResponseParser
\* Lengths of the texts handed to parse as they are, of the argument values
\* made of words and white space, and of the argument values that may hold
\* markers.
MaxTextLen == 4
MaxValueLen == 6
MaxMarkedLen == 2

SeqsUpTo(S, n) == UNION { [1..k -> S] : k \in 0..n }

\* texts of markers, a word and white space, in any order
RawTexts == SeqsUpTo({BEGIN_CALL, END_CALL, ARG_SEP, "f", SP, NL}, MaxTextLen)

\* argument values: lines of words with indentation and trailing white
\* space, and short values that may hold markers
PlainValues == SeqsUpTo({"v", SP, NL}, MaxValueLen)
MarkedValues ==
  SeqsUpTo({"v", SP, NL, ARG_SEP, BEGIN_CALL, END_CALL}, MaxMarkedLen)
Values == PlainValues \cup MarkedValues

\* one call: a name N and the arguments A as pairs <<key, value>>
Call(name, args) == [name |-> name, args |-> args]
Calls ==
  { Call(n, <<>>) : n \in {"f", SP} }
    \cup { Call(n, << <<k, v>> >>) : n \in {"f", SP}, k \in {"k", SP}, v \in Values }
    \cup { Call("f", << <<"k", v>>, <<j, w>> >>) :
             v \in MarkedValues, j \in {"j", "k"}, w \in {<<>>, <<"w">>, <<SP, "w", NL>>} }

\* what is written out: text, then the calls, with text between and after
Written(pre, calls, between, post) ==
  [pre |-> pre, calls |-> calls, between |-> between, post |-> post]
NoCalls == Written(<<>>, <<>>, <<>>, <<>>)

\* one call after the thoughts, as the response format lays it out
OneCall == { Written(<<"thought", NL>>, <<c>>, <<>>, <<>>) : c \in Calls }

\* two calls, the earlier one of words of its own
EarlierCalls ==
  { Call("f1", <<>>), Call("f1", << <<"k1", <<"v1">> >> >>),
    Call("f1", << <<"k1", <<"v1">> >>, <<"k", <<"v1", NL, "v1">> >> >>) }
LaterCalls ==
  { Call("f", <<>>) }
    \cup { Call("f", << <<"k", v>> >>) : v \in SeqsUpTo({"v", SP, NL}, MaxMarkedLen) }
TwoCalls ==
  { Written(pre, <<c1, c2>>, between, post) :
      pre \in {<<>>, <<"thought", NL>>}, c1 \in EarlierCalls, c2 \in LaterCalls,
      between \in {<<>>, <<NL, "again", NL>>}, post \in {<<>>, <<NL, "bye">>} }

\* the text of what is written
render(w) ==
  w.pre
    \o (IF Len(w.calls) = 2
          THEN encode(w.calls[1].name, w.calls[1].args) \o w.between ELSE <<>>)
    \o encode(w.calls[Len(w.calls)].name, w.calls[Len(w.calls)].args)
    \o w.post

\* ------------------------------------------------------------------ state
VARIABLES
  kind,                       \* "simple": simple_agent.ReactAgent, "agent": agent.ReactAgent
  llm,                        \* self.llm: the outcomes its generate may have
  id_to_message, root_message_id, current_message_id,
  function_map,
  instructions, last_tool_name, last_tool_error_streak,
  consecutive_syntax_errors, consecutive_not_found, recent_actions, failed_approaches,
  pc,                         \* "idle", "running", "returned", "raised", "hung"
  exc,                        \* the exception that left the last operation, or ""
  max_steps, step,            \* run's argument and loop index
  result,                     \* what run returned
  llm_calls, tool_calls,      \* calls of generate and of callables in this run
  response,                   \* what generate returned in the last iteration
  called,                     \* the calls of callables the last iteration made
  last_op,                    \* the operation that led to this state
  ops,                        \* operations performed so far (bounded by MaxOps)
  written,                    \* the calls written out with the response format
  decoded,                    \* <<what ResponseParser.parse made of response>>
  batch                       \* the threads of run_agent.main, by instance

fields ==
  <<id_to_message, root_message_id, current_message_id, function_map, instructions,
    last_tool_name, last_tool_error_streak, consecutive_syntax_errors,
    consecutive_not_found, recent_actions, failed_approaches>>

control == <<pc, exc, max_steps, step, result, llm_calls, tool_calls, response, called>>

vars == <<kind, llm, fields, control, last_op, ops, written, decoded, batch>>

\* an operation on the agent, and the id it was given if it takes one
Op(name, at) == [name |-> name, at |-> at]

\* the operations the model performs at most, by the LLM it runs with
\* what the environment may do in a step: anything, or, for the LLM that
\* never gives up its command, fail every time
Outcomes ==
  IF llm = PersistentLLM THEN {e \in ExtOutcomes : e.raised} ELSE ExtOutcomes

Budget ==
  IF llm \in SilentLLMs \cup {PersistentLLM} THEN MaxLong
  ELSE IF llm = StubbornLLM THEN MaxStuck
  ELSE MaxOps


\* the agent object, as the operators above take it
self ==
  [id_to_message |-> id_to_message,
   root_message_id |-> root_message_id,
   current_message_id |-> current_message_id,
   function_map |-> function_map,
   instructions |-> instructions,
   last_tool_name |-> last_tool_name,
   last_tool_error_streak |-> last_tool_error_streak,
   consecutive_syntax_errors |-> consecutive_syntax_errors,
   consecutive_not_found |-> consecutive_not_found,
   recent_actions |-> recent_actions,
   failed_approaches |-> failed_approaches,
   exc |-> ""]

Store(a) ==
  /\ id_to_message' = a.id_to_message
  /\ root_message_id' = a.root_message_id
  /\ current_message_id' = a.current_message_id
  /\ function_map' = a.function_map
  /\ instructions' = a.instructions
  /\ last_tool_name' = a.last_tool_name
  /\ last_tool_error_streak' = a.last_tool_error_streak
  /\ consecutive_syntax_errors' = a.consecutive_syntax_errors
  /\ consecutive_not_found' = a.consecutive_not_found
  /\ recent_actions' = a.recent_actions
  /\ failed_approaches' = a.failed_approaches

\* the fields as the first lines of both __init__ set them
blank ==
  [id_to_message |-> <<>>, root_message_id |-> -1, current_message_id |-> -1,
   function_map |-> <<>>, instructions |-> <<>>, last_tool_name |-> <<>>,
   last_tool_error_streak |-> 0, consecutive_syntax_errors |-> 0,
   consecutive_not_found |-> 0, recent_actions |-> <<>>, failed_approaches |-> <<>>,
   exc |-> ""]

\* simple_agent.ReactAgent.__init__
simple_init ==
  simple_add_message(
    simple_add_message(
      [blank EXCEPT !.function_map = add_functions(<<>>, <<finish_tool, backtrack_tool>>)],
      "system", <<>>),
    "user", <<>>)

system_prompt == <<"You are an expert software engineer fixing bugs. ...", "PASSED", "...">>
default_instructions == <<"# WORKFLOW (Use specialized tools!) ...">>

\* agent.ReactAgent.__init__
agent_init ==
  LET seeded == add_message(
                  add_message(add_message(blank, "system", system_prompt), "user", <<>>),
                  "instructor", default_instructions)
  IN [seeded EXCEPT !.function_map = add_functions(<<>>, <<finish_tool>>)]

Constructed(k, a, l) ==
  /\ kind = k
  /\ llm = l
  /\ id_to_message = a.id_to_message
  /\ root_message_id = a.root_message_id
  /\ current_message_id = a.current_message_id
  /\ function_map = a.function_map
  /\ instructions = a.instructions
  /\ last_tool_name = a.last_tool_name
  /\ last_tool_error_streak = a.last_tool_error_streak
  /\ consecutive_syntax_errors = a.consecutive_syntax_errors
  /\ consecutive_not_found = a.consecutive_not_found
  /\ recent_actions = a.recent_actions
  /\ failed_approaches = a.failed_approaches
  /\ pc = "idle" /\ exc = "" /\ max_steps = 0 /\ step = 0 /\ result = <<>>
  /\ llm_calls = 0 /\ tool_calls = 0 /\ response = <<>> /\ called = <<>>
  /\ last_op = Op("__init__", "") /\ ops = 0
  /\ written = NoCalls /\ decoded = <<>> /\ batch = <<>>

SimpleInit == Constructed("simple", simple_init, FullLLM("simple"))
AgentInit == Constructed("agent", agent_init, FullLLM("agent"))
Init == SimpleInit \/ AgentInit
SilentInit ==
  \E l \in SilentLLMs :
    \/ Constructed("simple", simple_init, l)
    \/ Constructed("agent", agent_init, l)

\* ------------------------------------------------ simple_agent: actions
\* agent.add_functions([...]) as process_instance calls it
SimpleAddFunctions ==
  /\ kind = "simple" /\ pc = "idle"
  /\ add_functions(function_map, simple_driver_tools) # function_map
  /\ Store([self EXCEPT !.function_map = add_functions(@, simple_driver_tools)])
  /\ last_op' = Op("add_functions", "")
  /\ UNCHANGED <<batch, kind, llm, written, decoded, control, ops>>

\* run(task, m) up to the loop: set_user_prompt(task)
SimpleRun ==
  /\ kind = "simple" /\ pc # "running"
  /\ \E m \in 0..(Budget - ops) :
       LET a == simple_set_message(self, simple_user_message_index, Task)
       IN /\ Store(a)
          /\ max_steps' = m
          /\ step' = 0 /\ llm_calls' = 0 /\ tool_calls' = 0 /\ result' = <<>>
          /\ called' = <<>> /\ response' = <<>>
          /\ pc' = IF a.exc # "" THEN "raised" ELSE "running"
          /\ exc' = a.exc
  /\ last_op' = Op("run", "")
  /\ UNCHANGED <<batch, kind, llm, written, decoded, ops>>

\* one iteration of the loop
SimpleIterate ==
  /\ kind = "simple" /\ pc = "running" /\ step < max_steps /\ ops < Budget
  /\ \E l \in llm, ext \in ExtOutcomes :
       IF l.raised
       THEN \* llm.generate raises outside any try: the exception leaves run
            /\ pc' = "raised" /\ exc' = "RuntimeError"
            /\ llm_calls' = llm_calls + 1
            /\ called' = <<>> /\ response' = <<>>
            /\ UNCHANGED <<fields, max_steps, step, result, tool_calls>>
       ELSE LET o == simple_iteration(self, l.text, ext)
            IN /\ Store(o.a)
               /\ response' = l.text
               /\ llm_calls' = llm_calls + 1
               /\ tool_calls' = tool_calls + Len(o.invoked) /\ called' = o.invoked
               /\ exc' = o.a.exc
               /\ pc' = IF o.a.exc # "" THEN "raised"
                        ELSE IF o.returned THEN "returned" ELSE "running"
               /\ result' = o.result
               /\ step' = IF o.a.exc # "" \/ o.returned THEN step ELSE step + 1
               /\ UNCHANGED max_steps
  /\ ops' = ops + 1
  /\ last_op' = Op("iteration", "")
  /\ UNCHANGED <<batch, kind, llm, written, decoded>>

\* the loop ends: return the step-limit sentinel
SimpleLoopExit ==
  /\ kind = "simple" /\ pc = "running" /\ step >= max_steps
  /\ pc' = "returned"
  /\ result' = SimpleStepLimit
  /\ last_op' = Op("return", "")
  /\ UNCHANGED <<batch, kind, llm, written, decoded, fields, exc, max_steps, step, llm_calls, tool_calls,
               response, called, ops>>

\* a caller's add_message(role, content)
SimpleApiAddMessage ==
  /\ kind = "simple" /\ pc # "running" /\ ops < MaxOps
  /\ LET a == simple_add_message(self, "assistant", <<"x">>)
     IN Store(a) /\ exc' = a.exc
  /\ ops' = ops + 1
  /\ last_op' = Op("add_message", "")
  /\ UNCHANGED <<batch, kind, llm, written, decoded, pc, max_steps, step, result, llm_calls, tool_calls,
               response, called>>

\* a caller's add_instructions_and_backtrack(instructions, id)
SimpleApiBacktrack ==
  /\ kind = "simple" /\ pc # "running" /\ ops < MaxOps
  /\ \E at \in ApiIds :
       LET r == simple_add_instructions_and_backtrack(self, <<"retry">>, <<at>>)
       IN Store(r.a) /\ exc' = r.a.exc /\ last_op' = Op("backtrack", at)
  /\ ops' = ops + 1
  /\ UNCHANGED <<batch, kind, llm, written, decoded, pc, max_steps, step, result, llm_calls, tool_calls,
               response, called>>

SimpleNext ==
  \/ SimpleAddFunctions
  \/ SimpleRun
  \/ SimpleIterate
  \/ SimpleLoopExit
  \/ SimpleApiAddMessage
  \/ SimpleApiBacktrack

\* ------------------------------------------------------- agent: actions
AgentAddFunctions ==
  /\ kind = "agent" /\ pc = "idle"
  /\ add_functions(function_map, agent_driver_tools) # function_map
  /\ Store([self EXCEPT !.function_map = add_functions(@, agent_driver_tools)])
  /\ last_op' = Op("add_functions", "")
  /\ UNCHANGED <<batch, kind, llm, written, decoded, control, ops>>

AgentRun ==
  /\ kind = "agent" /\ pc \notin {"running", "hung"}
  /\ \E m \in 0..(Budget - ops) :
       LET a == set_message_content(self, user_message_id, Task)
       IN /\ Store(a)
          /\ max_steps' = m
          /\ step' = 0 /\ llm_calls' = 0 /\ tool_calls' = 0 /\ result' = <<>>
          /\ called' = <<>> /\ response' = <<>>
          /\ pc' = IF a.exc # "" THEN "raised" ELSE "running"
          /\ exc' = a.exc
  /\ last_op' = Op("run", "")
  /\ UNCHANGED <<batch, kind, llm, written, decoded, ops>>

AgentIterate ==
  /\ kind = "agent" /\ pc = "running" /\ step < max_steps /\ ops < Budget
  /\ \E l \in llm, ext \in Outcomes :
       LET o == iteration(self, step, l, ext)
       IN /\ Store(o.a)
          /\ response' = IF o.llm_calls = 1 /\ ~l.raised THEN l.text ELSE <<>>
          /\ llm_calls' = llm_calls + o.llm_calls
          /\ tool_calls' = tool_calls + Len(o.invoked) /\ called' = o.invoked
          /\ exc' = o.a.exc
          /\ pc' = IF o.status = "continue" THEN "running" ELSE o.status
          /\ result' = o.result
          /\ step' = IF o.status = "continue" THEN step + 1 ELSE step
          /\ UNCHANGED max_steps
  /\ ops' = ops + 1
  /\ last_op' = Op("iteration", "")
  /\ UNCHANGED <<batch, kind, llm, written, decoded>>

AgentLoopExit ==
  /\ kind = "agent" /\ pc = "running" /\ step >= max_steps
  /\ pc' = "returned"
  /\ result' = AgentStepLimit(max_steps)
  /\ last_op' = Op("return", "")
  /\ UNCHANGED <<batch, kind, llm, written, decoded, fields, exc, max_steps, step, llm_calls, tool_calls,
               response, called, ops>>

AgentApiAddMessage ==
  /\ kind = "agent" /\ pc \notin {"running", "hung"} /\ ops < MaxOps
  /\ LET a == add_message(self, "assistant", <<"x">>)
     IN Store(a) /\ exc' = a.exc
  /\ ops' = ops + 1
  /\ last_op' = Op("add_message", "")
  /\ UNCHANGED <<batch, kind, llm, written, decoded, pc, max_steps, step, result, llm_calls, tool_calls,
               response, called>>

AgentApiBacktrack ==
  /\ kind = "agent" /\ pc \notin {"running", "hung"} /\ ops < MaxOps
  /\ \E at \in ApiIds :
       LET r == add_instructions_and_backtrack(self, <<"retry">>, <<at>>)
       IN Store(r.a) /\ exc' = r.a.exc /\ last_op' = Op("backtrack", at)
  /\ ops' = ops + 1
  /\ UNCHANGED <<batch, kind, llm, written, decoded, pc, max_steps, step, result, llm_calls, tool_calls,
               response, called>>

AgentNext ==
  \/ AgentAddFunctions
  \/ AgentRun
  \/ AgentIterate
  \/ AgentLoopExit
  \/ AgentApiAddMessage
  \/ AgentApiBacktrack

Next == SimpleNext \/ AgentNext

Spec == Init /\ [][Next]_vars
SimpleSpec == SimpleInit /\ [][SimpleNext]_vars
AgentSpec == AgentInit /\ [][AgentNext]_vars

\* agent.ReactAgent driven as run_test_subset.py drives it: tools registered,
\* then run; nothing else touches the agent
AgentRunNext ==
  \/ AgentAddFunctions
  \/ AgentRun
  \/ AgentIterate
  \/ AgentLoopExit
AgentRunSpec == AgentInit /\ [][AgentRunNext]_vars

\* both agents driven as the drivers drive them: tools registered, then run
RunNext ==
  \/ SimpleAddFunctions
  \/ SimpleRun
  \/ SimpleIterate
  \/ SimpleLoopExit
  \/ AgentRunNext
RunSpec == Init /\ [][RunNext]_vars

\* the drivers' runs with an LLM that chooses what it passes to finish
SentinelInit ==
  \/ Constructed("simple", simple_init, SentinelLLM)
  \/ Constructed("agent", agent_init, SentinelLLM)
SentinelSpec == SentinelInit /\ [][RunNext]_vars

\* the drivers' runs with an LLM that backtracks
BranchInit ==
  \/ Constructed("simple", simple_init, BranchingLLM)
  \/ Constructed("agent", agent_init, BranchingLLM)
BranchSpec == BranchInit /\ [][RunNext]_vars

\* a caller's add_functions(tools), with any of the lists, at any time
\* outside run
SimpleRegister ==
  /\ kind = "simple" /\ pc # "running"
  /\ \E key \in DOMAIN ToolLists :
       /\ Store([self EXCEPT !.function_map = add_functions(@, ToolLists[key])])
       /\ last_op' = Op("add_functions", key)
  /\ UNCHANGED <<batch, kind, llm, written, decoded, control, ops>>

AgentRegister ==
  /\ kind = "agent" /\ pc \notin {"running", "hung"}
  /\ \E key \in DOMAIN ToolLists :
       /\ Store([self EXCEPT !.function_map = add_functions(@, ToolLists[key])])
       /\ last_op' = Op("add_functions", key)
  /\ UNCHANGED <<batch, kind, llm, written, decoded, control, ops>>

RegistryInit ==
  \/ Constructed("simple", simple_init, RegistryLLM)
  \/ Constructed("agent", agent_init, RegistryLLM)
RegistryNext ==
  \/ SimpleRegister
  \/ SimpleRun
  \/ SimpleIterate
  \/ SimpleLoopExit
  \/ AgentRegister
  \/ AgentRun
  \/ AgentIterate
  \/ AgentLoopExit
RegistrySpec == RegistryInit /\ [][RegistryNext]_vars

\* a caller's _set_message(idx, content) / set_message_content(id, content)
SetIds == (0 - MaxId)..MaxId
NewContents == { <<"new">>, <<"other">> }

SimpleApiSetMessage ==
  /\ kind = "simple" /\ pc # "running" /\ ops < MaxOps
  /\ \E idx \in SetIds, content \in NewContents :
       LET a == simple_set_message(self, idx, content)
       IN Store(a) /\ exc' = a.exc /\ last_op' = Op("set_message", str_of(idx))
  /\ ops' = ops + 1
  /\ UNCHANGED <<batch, kind, llm, written, decoded, pc, max_steps, step, result, llm_calls,
               tool_calls, response, called>>

AgentApiSetMessage ==
  /\ kind = "agent" /\ pc \notin {"running", "hung"} /\ ops < MaxOps
  /\ \E message_id \in SetIds, content \in NewContents :
       LET a == set_message_content(self, message_id, content)
       IN Store(a) /\ exc' = a.exc /\ last_op' = Op("set_message", str_of(message_id))
  /\ ops' = ops + 1
  /\ UNCHANGED <<batch, kind, llm, written, decoded, pc, max_steps, step, result, llm_calls,
               tool_calls, response, called>>

\* the message tree used through its methods: messages added, contents set
TreeNext ==
  \/ SimpleApiAddMessage
  \/ SimpleApiSetMessage
  \/ AgentApiAddMessage
  \/ AgentApiSetMessage
TreeSpec == Init /\ [][TreeNext]_vars

\* agent.ReactAgent driven by its driver with an LLM that never gives up its
\* command, for as many steps as a long run has
PersistInit == Constructed("agent", agent_init, PersistentLLM)
PersistSpec == PersistInit /\ [][AgentRunNext]_vars

\* agent.ReactAgent driven by its driver with an LLM that repeats itself
StuckInit == Constructed("agent", agent_init, StubbornLLM)
StuckSpec == StuckInit /\ [][AgentRunNext]_vars

\* run alone, with an LLM that never emits a decodable call
SilentNext ==
  \/ SimpleRun
  \/ SimpleIterate
  \/ SimpleLoopExit
  \/ AgentRun
  \/ AgentIterate
  \/ AgentLoopExit
SilentSpec == SilentInit /\ [][SilentNext]_vars

\* --------------------------------------------- ResponseParser on its own
\* The parser is given a text as it is, or calls to write out first.
ParserStart(w, text, at) ==
  /\ kind = "parser" /\ llm = {}
  /\ id_to_message = <<>> /\ root_message_id = -1 /\ current_message_id = -1
  /\ function_map = <<>> /\ instructions = <<>>
  /\ last_tool_name = <<>> /\ last_tool_error_streak = 0
  /\ consecutive_syntax_errors = 0 /\ consecutive_not_found = 0
  /\ recent_actions = <<>> /\ failed_approaches = <<>>
  /\ pc = at /\ exc = "" /\ max_steps = 0 /\ step = 0 /\ result = <<>>
  /\ llm_calls = 0 /\ tool_calls = 0 /\ called = <<>>
  /\ last_op = Op("__init__", "") /\ ops = 0
  /\ written = w /\ response = text /\ decoded = <<>> /\ batch = <<>>

ParserInit ==
  \/ \E text \in RawTexts : ParserStart(NoCalls, text, "text")
  \/ \E w \in OneCall \cup TwoCalls : ParserStart(w, <<>>, "input")

\* the calls are written out in the response format
ParserEncode ==
  /\ kind = "parser" /\ pc = "input"
  /\ response' = render(written)
  /\ pc' = "text"
  /\ last_op' = Op("encode", "")
  /\ UNCHANGED <<batch, kind, llm, fields, exc, max_steps, step, result, llm_calls,
               tool_calls, called, ops, written, decoded>>

\* parse(response)
ParserParse ==
  /\ kind = "parser" /\ pc = "text"
  /\ \E p \in {parse(response)} :
       /\ decoded' = <<p>>
       /\ exc' = IF p.ok THEN "" ELSE "ValueError"
  /\ pc' = "parsed"
  /\ last_op' = Op("parse", "")
  /\ UNCHANGED <<batch, kind, llm, fields, max_steps, step, result, llm_calls,
               tool_calls, called, ops, written, response>>

ParserNext == ParserEncode \/ ParserParse
ParserSpec == ParserInit /\ [][ParserNext]_vars

\* ---- responses in the wire format, normalised before they are parsed
\* argument values of words, line ends, separators (exact and typo'd) and
\* markers
WireValues ==
  SeqsUpTo({"v", SP, NL, CR, ARG_SEP, ARG_TYPO, BEGIN_CALL, END_CALL}, MaxMarkedLen)
WireCalls ==
  { Written(pre, <<Call("f", << <<"k", v>> >>)>>, <<>>, <<>>) :
      pre \in {<<>>, <<"thought", NL>>}, v \in WireValues }
NormInit == \E w \in WireCalls : ParserStart(w, <<>>, "input")

\* response = self._normalize_response(response)
ParserNormalize ==
  /\ kind = "parser" /\ pc = "text"
  /\ response' = normalize_response(response)
  /\ pc' = "normalized"
  /\ last_op' = Op("normalize", "")
  /\ UNCHANGED <<batch, kind, llm, fields, exc, max_steps, step, result, llm_calls,
               tool_calls, called, ops, written, decoded>>

\* parse(response) of the normalised response
ParserParseNormalized ==
  /\ kind = "parser" /\ pc = "normalized"
  /\ \E p \in {parse(response)} :
       /\ decoded' = <<p>>
       /\ exc' = IF p.ok THEN "" ELSE "ValueError"
  /\ pc' = "parsed"
  /\ last_op' = Op("parse", "normalized")
  /\ UNCHANGED <<batch, kind, llm, fields, max_steps, step, result, llm_calls,
               tool_calls, called, ops, written, response>>

NormNext == ParserEncode \/ ParserParse \/ ParserNormalize \/ ParserParseNormalized
NormSpec == NormInit /\ [][NormNext]_vars

\* ---- responses as OpenAIModel.generate hands them to the agent
\* the stop token the drivers construct the model with
stop_token == END_CALL
\* lines 62-64 of OpenAIModel.generate
generate(generated_text) ==
  IF EndsWith(generated_text, <<stop_token>>) THEN generated_text
  ELSE generated_text \o <<stop_token>>

\* what the model writes: one call in the response format, of plain words,
\* with or without white space after the end marker
ModelOutputs ==
  { Written(pre, <<Call("f", << <<"k", v>> >>)>>, <<>>, post) :
      pre \in {<<>>, <<"thought", NL>>},
      v \in SeqsUpTo({"v", SP, NL}, MaxMarkedLen),
      post \in {<<>>, <<NL>>, <<SP, NL>>} }
GenInit == \E w \in ModelOutputs : ParserStart(w, <<>>, "input")

\* return generated_text
ParserGenerate ==
  /\ kind = "parser" /\ pc = "text"
  /\ response' = generate(response)
  /\ pc' = "generated"
  /\ last_op' = Op("generate", "")
  /\ UNCHANGED <<batch, kind, llm, fields, exc, max_steps, step, result, llm_calls,
               tool_calls, called, ops, written, decoded>>

\* parse(response) of what generate returned
ParserParseGenerated ==
  /\ kind = "parser" /\ pc = "generated"
  /\ \E p \in {parse(response)} :
       /\ decoded' = <<p>>
       /\ exc' = IF p.ok THEN "" ELSE "ValueError"
  /\ pc' = "parsed"
  /\ last_op' = Op("parse", "generated")
  /\ UNCHANGED <<batch, kind, llm, fields, max_steps, step, result, llm_calls,
               tool_calls, called, ops, written, response>>

GenNext == ParserEncode \/ ParserGenerate \/ ParserParseGenerated
GenSpec == GenInit /\ [][GenNext]_vars

\* ------------------------------------------- run_agent.py: the batch driver
\* main submits process_instance(instance, ...) once per instance to a thread
\* pool; each thread works on the objects it constructs itself.
Instances == {"i1", "i2"}

\* --max-steps, as main hands it to every process_instance
BatchSteps == 2

\* what generate may return to a thread
BatchLLM == { Returns(BashTest), Returns(FinishOk) }

RetryInstructions == <<"RETRY: Previous attempt produced no patch. ...">>

\* a thread before it has constructed anything (lines 41-43)
submitted ==
  [pc |-> "submitted", agent |-> blank, pass |-> 0, max_steps |-> 0, step |-> 0,
   output |-> <<>>, result |-> <<>>, changed |-> FALSE, inputs |-> <<>>]

\* an input of a thread: the operation it performs next and what the world
\* outside hands it (the LLM's answer, the tool's outcome)
Input(op, l, ext) == [op |-> op, l |-> l, ext |-> ext]
NoAnswer == Returns(<<>>)
NoOutcome == [raised |-> FALSE, value |-> <<>>, syntax |-> FALSE, changed |-> FALSE]

\* env.generate_patch(output): the diff, or the output with a warning.
\* changed: git shows changes in the thread's own working tree
generate_patch(output, changed) ==
  IF changed THEN <<"diff --git", " a/x.py b/x.py ...">>
  ELSE output \o <<NL, NL, "WARNING: ", "No file changes", " detected by git. ...">>

\* line 83: the result is no patch
no_patch(patch) ==
  \/ ~(strip(patch) # <<>> /\ strip(patch)[1] = "diff --git")
  \/ has_word(patch, "No changes detected")
  \/ has_word(patch, "No file changes")

\* agent.run(task, m) up to its loop, in a thread
thread_run(t, m) ==
  [t EXCEPT !.agent = simple_set_message(@, simple_user_message_index, Task),
            !.max_steps = m, !.step = 0, !.output = <<>>, !.pc = "running",
            !.pass = @ + 1]

\* one step of process_instance in the thread t, given the input
\* agent = ReactAgent("swe-react-agent", parser, llm) (line 49)
thread_construct(t, input) == [t EXCEPT !.agent = simple_init, !.pc = "constructed"]

\* agent.add_functions([...]) (lines 70-75)
thread_add_functions(t, input) ==
  [t EXCEPT !.agent.function_map = add_functions(@, simple_driver_tools),
            !.pc = "registered"]

\* output = agent.run(task, max_steps) (line 78), up to the loop
thread_first_run(t, input) == thread_run(t, BatchSteps)

\* one iteration of the loop of run; a command that ran to its end has
\* changed the thread's working tree when the outcome says so
thread_iterate(t, input) ==
  the({ IF o.returned
          THEN [t EXCEPT !.agent = o.a, !.output = o.result, !.pc = "ran"]
        ELSE [t EXCEPT !.agent = o.a, !.step = @ + 1,
                       !.changed = \/ @
                                   \/ /\ Len(o.invoked) = 1 /\ ~o.invoked[1].raised
                                      /\ o.invoked[1].name = <<"run_bash_cmd">>
                                      /\ input.ext.changed] :
        o \in { simple_iteration(t.agent, input.l.text, input.ext) } })

\* the loop is exhausted: run returns the step-limit text
thread_loop_exit(t, input) == [t EXCEPT !.output = SimpleStepLimit, !.pc = "ran"]

\* lines 81-101: the patch of the pass, and the retry when the first pass
\* produced none
thread_patch(t, input) ==
  the({ IF t.pass = 1 /\ no_patch(made)
          THEN thread_run(
                 [t EXCEPT !.result = made,
                           !.agent = simple_add_instructions_and_backtrack(
                                       @, RetryInstructions, <<"1">>).a],
                 BatchSteps \div 2)
        ELSE [t EXCEPT !.result = made, !.pc = "done"] :
        made \in { generate_patch(t.output, t.changed) } })

\* the step the input names
thread_step(t, input) ==
  LET after ==
        CASE input.op = "construct" -> thread_construct(t, input)
          [] input.op = "add_functions" -> thread_add_functions(t, input)
          [] input.op = "run" -> thread_first_run(t, input)
          [] input.op = "iterate" -> thread_iterate(t, input)
          [] input.op = "loop_exit" -> thread_loop_exit(t, input)
          [] input.op = "patch" -> thread_patch(t, input)
  IN [after EXCEPT !.inputs = Append(@, input)]

\* a thread whose agent is an object all threads share
shared_agent(b, w) == b["i1"].agent

\* the agent the thread of instance w works on: the local variable `agent`
\* of its own call of process_instance
own_agent(b, w) == b[w].agent

\* the thread of w as it stands, and the batch after its step
thread(w) == [batch[w] EXCEPT !.agent = own_agent(batch, w)]
Stepped(w, input) == batch' = [batch EXCEPT ![w] = thread_step(thread(w), input)]

RECURSIVE alone(_)
\* process_instance executed alone on the inputs a thread was given
alone(inputs) ==
  IF inputs = <<>> THEN submitted
  ELSE thread_step(alone(SubSeq(inputs, 1, Len(inputs) - 1)), inputs[Len(inputs)])

BatchInit ==
  /\ kind = "batch" /\ llm = BatchLLM
  /\ id_to_message = <<>> /\ root_message_id = -1 /\ current_message_id = -1
  /\ function_map = <<>> /\ instructions = <<>>
  /\ last_tool_name = <<>> /\ last_tool_error_streak = 0
  /\ consecutive_syntax_errors = 0 /\ consecutive_not_found = 0
  /\ recent_actions = <<>> /\ failed_approaches = <<>>
  /\ pc = "batch" /\ exc = "" /\ max_steps = 0 /\ step = 0 /\ result = <<>>
  /\ llm_calls = 0 /\ tool_calls = 0 /\ called = <<>> /\ response = <<>>
  /\ last_op = Op("main", "") /\ ops = 0
  /\ written = NoCalls /\ decoded = <<>>
  /\ batch = [w \in Instances |-> submitted]

\* a step of the thread of w; nothing but the batch changes
BatchStep(w, at, op, l, ext) ==
  /\ kind = "batch" /\ batch[w].pc = at
  /\ Stepped(w, Input(op, l, ext))
  /\ last_op' = Op(op, w)
  /\ UNCHANGED <<kind, llm, fields, control, ops, written, decoded>>

BatchConstruct ==
  \E w \in Instances : BatchStep(w, "submitted", "construct", NoAnswer, NoOutcome)

BatchAddFunctions ==
  \E w \in Instances : BatchStep(w, "constructed", "add_functions", NoAnswer, NoOutcome)

BatchRun ==
  \E w \in Instances : BatchStep(w, "registered", "run", NoAnswer, NoOutcome)

BatchIterate ==
  \E w \in Instances, l \in llm, ext \in {e \in ExtOutcomes : e.changed} :
    /\ batch[w].step < batch[w].max_steps
    /\ l = Returns(FinishOk) => ~ext.raised
    /\ BatchStep(w, "running", "iterate", l, ext)

BatchLoopExit ==
  \E w \in Instances :
    /\ batch[w].step >= batch[w].max_steps
    /\ BatchStep(w, "running", "loop_exit", NoAnswer, NoOutcome)

BatchPatch ==
  \E w \in Instances : BatchStep(w, "ran", "patch", NoAnswer, NoOutcome)

BatchNext ==
  \/ BatchConstruct
  \/ BatchAddFunctions
  \/ BatchRun
  \/ BatchIterate
  \/ BatchLoopExit
  \/ BatchPatch
BatchSpec == BatchInit /\ [][BatchNext]_vars

\* =============================================================== properties
\* the sentinel run returns when the loop is exhausted
StepLimit == IF kind = "simple" THEN SimpleStepLimit ELSE AgentStepLimit(max_steps)

\* C1: with an LLM that never emits a decodable call, run(task, max_steps) of
\* either agent never raises and never hangs, makes one LLM call per
\* iteration, never iterates more than max_steps times, and when it returns
\* it has performed exactly max_steps iterations and returns the step-limit
\* sentinel.
C1_SilentRunReachesStepLimit ==
  /\ pc \notin {"raised", "hung"} /\ exc = ""
  /\ step <= max_steps /\ llm_calls = step /\ tool_calls = 0
  /\ pc = "returned" => step = max_steps /\ llm_calls = max_steps /\ result = StepLimit

\* a run of agent.ReactAgent long enough to pass a checkpoint step returned
C1_Witness ==
  pc = "returned" /\ kind = "agent" /\ max_steps > 10 /\ llm_calls = max_steps

\* ---- observing one iteration of simple_agent.ReactAgent.run as a step
\* the step is an iteration of the loop in which generate returned
SimpleAnswered ==
  /\ kind = "simple" /\ pc = "running" /\ last_op' = Op("iteration", "")
  /\ ops' = ops + 1 /\ exc' # "RuntimeError"
\* the id of the assistant message the iteration appends, the response it
\* holds, and the messages the iteration appends after it
assistant_id == Len(id_to_message)
answer == response'
appended_after == SubSeq(id_to_message', assistant_id + 2, Len(id_to_message'))
\* the iteration appended the response as an assistant message under the
\* cursor, whatever it appended after it
ResponseRecorded ==
  /\ Len(id_to_message') > Len(id_to_message)
  /\ id_to_message'[assistant_id + 1].role = "assistant"
  /\ id_to_message'[assistant_id + 1].content = answer
  /\ id_to_message'[assistant_id + 1].parent = current_message_id
\* the response is a well-formed call of finish(result = R)
IsFinishCall(p) == p.ok /\ p.name = <<"finish">> /\ DOMAIN p.arguments = {<<"result">>}
has_marker_line(value) ==
  \E i \in 1..Len(splitlines(value)) : strip(splitlines(value)[i]) = <<END_ARGUMENT>>
FinishFirst ==
  SimpleAnswered /\ llm_calls = 0 /\ \A parsed \in {parse(answer)} : IsFinishCall(parsed)

ToolReturned ==
  /\ SimpleAnswered /\ Len(called') = 1
  /\ ~called'[1].raised /\ called'[1].name # <<"finish">>
\* the message the cursor is at once the tool has returned: the assistant
\* message, unless the tool was add_instructions_and_backtrack and moved it
cursor_after_tool ==
  IF called'[1].name = <<"add_instructions_and_backtrack">>
  THEN the({ IF 0 <= at /\ at <= assistant_id THEN at ELSE assistant_id :
             at \in { IF int_ok(given) THEN int_of(given) ELSE 1 :
                      given \in { parse(normalize_response(answer))
                                    .arguments[<<"at_message_id">>] } } })
  ELSE assistant_id
\* the iteration appended, after the assistant message, exactly one system
\* message with this content, as the last child of message parent
OneResultUnder(parent_id, content) ==
  \A tail \in {appended_after}, parent \in {parent_id}, after \in {id_to_message'} :
    /\ Len(tail) = 1
    /\ tail[1].role = "system" /\ tail[1].content = content
    /\ tail[1].parent = parent
    /\ after[parent + 1].children # <<>>
    /\ after[parent + 1].children[Len(after[parent + 1].children)] = tail[1].unique_id
    /\ \A i \in 1..Len(after) :
         i # parent + 1 =>
           \A k \in 1..Len(after[i].children) :
             after[i].children[k] # tail[1].unique_id

\* C3 (amended): in simple_agent.ReactAgent.run, when a registered tool other
\* than finish returns V, the iteration appends exactly one system message
\* "Result:\n" + V, as a child of the message the cursor is at after the
\* call: the step's assistant message, or the target of the backtrack when
\* the tool is add_instructions_and_backtrack with an id of an existing
\* message.  With run_echo registered, the response run_echo(text = hello)
\* yields the message "Result:\nhello" under its assistant message, and a
\* following finish(result = ok) makes run return "ok".
C3_ResultRecordedUnderCursor ==
  [][/\ ToolReturned =>
          /\ ResponseRecorded
          /\ OneResultUnder(cursor_after_tool, <<"Result:", NL>> \o called'[1].value)
          /\ pc' = "running" /\ step' = step + 1 /\ llm_calls' = llm_calls + 1
     /\ (SimpleAnswered /\ answer = EchoHello
           /\ registered(function_map, <<"run_echo">>)) =>
          /\ ToolReturned
          /\ OneResultUnder(assistant_id, <<"Result:", NL, "hello">>)
     /\ (SimpleAnswered /\ answer = FinishOk) =>
          pc' = "returned" /\ result' = <<"ok">>]_vars

\* the scenario ran: run_echo(text = hello), then finish(result = ok)
C3_Witness ==
  /\ kind = "simple" /\ pc = "returned" /\ llm_calls = 2 /\ result = <<"ok">>
  /\ \E i \in 1..Len(id_to_message) :
       /\ id_to_message[i].content = <<"Result:", NL, "hello">>
       /\ id_to_message[id_to_message[i].parent + 1].content = EchoHello

\* C3 as stated: the result message is a child of the step's assistant message
C3_ResultUnderAssistant ==
  [][ToolReturned =>
       OneResultUnder(assistant_id, <<"Result:", NL>> \o called'[1].value)]_vars

\* C4: when llm.generate raises in an iteration of simple_agent.ReactAgent.run
\* the exception is caught in the iteration, a system message records it and
\* the loop goes on to the next iteration: every iteration appends a message
\* and leaves run either running, one step further, or returned, and no
\* exception reaches the caller of run.
C4_LLMFailureCaught ==
  [][(kind = "simple" /\ pc = "running" /\ last_op' = Op("iteration", "")) =>
       /\ exc' = "" /\ pc' \in {"running", "returned"}
       /\ pc' = "running" => step' = step + 1
       /\ Len(id_to_message') > Len(id_to_message)
       /\ id_to_message'[Len(id_to_message')].role = "system" \/ pc' = "returned"]_vars

\* C5: whatever the LLM answers and the tools do, calls of
\* add_instructions_and_backtrack with any integer id included,
\* agent.ReactAgent.run neither lets an exception escape nor fails to return,
\* and what it returns is the value finish returned or the step-limit
\* sentinel.
C5_RunReturnsFinishOrSentinel ==
  /\ pc \notin {"raised", "hung"} /\ exc = ""
  /\ pc = "returned" =>
       \/ result = AgentStepLimit(max_steps)
       \/ /\ Len(called) = 1 /\ called[1].name = <<"finish">> /\ ~called[1].raised
          /\ result = called[1].value

\* ---- the message tree
\* the places (holder, position) where id stands in a children list
child_entries(tree, id) ==
  {e \in (1..Len(tree)) \X (1..Len(tree)) :
     e[2] <= Len(tree[e[1]].children) /\ tree[e[1]].children[e[2]] = id}
\* following the parent links from id reaches message 0 within fuel steps
RECURSIVE reaches_root(_, _, _)
reaches_root(tree, id, fuel) ==
  IF id = 0 THEN TRUE
  ELSE IF fuel = 0 \/ id < 0 \/ id >= Len(tree) THEN FALSE
  ELSE reaches_root(tree, tree[id + 1].parent, fuel - 1)

\* C6: in simple_agent.ReactAgent, after any add_message,
\* add_instructions_and_backtrack (with any argument) and run iterations,
\* message 0 is the only message with parent -1, every other message stands
\* exactly once in the children lists, in the list of its parent, every
\* parent id is smaller than the child's id, and the parent links lead from
\* every message to the root in at most as many steps as there are messages.
C6_SimpleTreeInvariant ==
  kind = "simple" =>
    \A tree \in {id_to_message} :
      /\ Len(tree) >= 2 /\ tree[1].parent = -1 /\ root_message_id = 0
      /\ \A i \in 1..Len(tree) :
           /\ tree[i].unique_id = i - 1
           /\ i > 1 =>
                /\ tree[i].parent # -1
                /\ 0 <= tree[i].parent /\ tree[i].parent < i - 1
                /\ child_entries(tree, i - 1) # {}
                /\ \A e \in child_entries(tree, i - 1) :
                     e[1] = tree[i].parent + 1
                /\ Cardinality(child_entries(tree, i - 1)) = 1
           /\ reaches_root(tree, i - 1, Len(tree))
      /\ child_entries(tree, 0) = {}
      /\ 0 <= current_message_id /\ current_message_id < Len(tree)

\* the tree has branched: a backtrack was followed by new messages
C6_Witness ==
  /\ kind = "simple"
  /\ \E i \in 1..Len(id_to_message) : Len(id_to_message[i].children) >= 2
  /\ \E i \in 1..Len(id_to_message) : id_to_message[i].role = "assistant"

\* C7: in agent.ReactAgent, after any add_message and
\* add_instructions_and_backtrack calls with any integer id, the cursor is
\* the id of an existing message, exactly one message has parent -1, and
\* add_message has always succeeded and put the new message into the
\* children list of its parent.
C7_AgentCursorAndLinks ==
  kind = "agent" =>
    \A tree \in {id_to_message} :
      /\ 0 <= current_message_id /\ current_message_id < Len(tree)
      /\ Cardinality({i \in 1..Len(tree) : tree[i].parent = -1}) = 1
      /\ last_op.name = "add_message" => exc = ""
      /\ \A i \in 2..Len(tree) :
           \E e \in child_entries(tree, i - 1) : e[1] = tree[i].parent + 1

\* ---- backtracking, in both agents
\* message i is the same before and after the step, but for its content
SameButContent(i) ==
  /\ id_to_message'[i].role = id_to_message[i].role
  /\ id_to_message'[i].parent = id_to_message[i].parent
  /\ id_to_message'[i].children = id_to_message[i].children
  /\ id_to_message'[i].unique_id = id_to_message[i].unique_id
\* the step is a caller's add_instructions_and_backtrack
BacktrackStep == last_op'.name = "backtrack" /\ ops' = ops + 1
\* the step is a caller's add_message right after a backtrack
AddAfterBacktrack ==
  last_op.name = "backtrack" /\ last_op'.name = "add_message" /\ ops' = ops + 1
\* add_message made a message under id, the last of the children of id, and
\* left everything else as it was
AddedUnder(id) ==
  \A before \in {id_to_message}, after \in {id_to_message'} :
    /\ exc' = "" /\ Len(after) = Len(before) + 1
    /\ after[Len(after)].parent = id /\ after[Len(after)].unique_id = Len(before)
    /\ 0 <= id /\ id < Len(before)
    /\ after[id + 1].children = Append(before[id + 1].children, Len(before))
    /\ \A i \in 1..Len(before) : i # id + 1 => after[i] = before[i]
    /\ current_message_id' = Len(before)
\* no step removes a message or changes the parent or the role of one
AppendOnly ==
  /\ Len(id_to_message') >= Len(id_to_message)
  /\ \A i \in 1..Len(id_to_message) :
       /\ id_to_message'[i].parent = id_to_message[i].parent
       /\ id_to_message'[i].role = id_to_message[i].role
       /\ id_to_message'[i].unique_id = id_to_message[i].unique_id

\* C8 (amended): in both agents add_instructions_and_backtrack(_, id) creates
\* and deletes no message and changes no message's role, parent or children,
\* whatever id is; when id is the id of an existing message
\* (0 <= id < number of messages), a following add_message creates a message
\* whose parent is id and appends it to the children of id, the earlier
\* children and every other message unchanged.  No step of any operation
\* shrinks the message list or changes a parent.
C8_BacktrackMovesCursorOnly ==
  [][/\ BacktrackStep =>
          /\ Len(id_to_message') = Len(id_to_message)
          /\ \A i \in 1..Len(id_to_message) : SameButContent(i)
     /\ (AddAfterBacktrack /\ 0 <= int_of(<<last_op.at>>)
           /\ int_of(<<last_op.at>>) < Len(id_to_message)) =>
          AddedUnder(int_of(<<last_op.at>>))
     /\ AppendOnly]_vars

\* add_message after a backtrack made a second child of an earlier message
C8_Witness ==
  /\ last_op.name = "add_message" /\ exc = ""
  /\ \A tree \in {id_to_message} :
       /\ tree[Len(tree)].content = <<"x">>
       /\ current_message_id = Len(tree) - 1
       /\ tree[Len(tree)].parent >= 0
       /\ Len(tree[tree[Len(tree)].parent + 1].children) >= 2

\* C8 as stated: the message added after add_instructions_and_backtrack(_, id)
\* is a child of id, for every id
C8_AddedUnderAnyId ==
  [][/\ BacktrackStep =>
          /\ Len(id_to_message') = Len(id_to_message)
          /\ \A i \in 1..Len(id_to_message) : SameButContent(i)
     /\ AddAfterBacktrack => AddedUnder(int_of(<<last_op.at>>))
     /\ AppendOnly]_vars

\* ---- the iterations of simple_agent.ReactAgent.run that dispatch nothing
\* the iteration appended, after the assistant message, exactly one system
\* message, under the assistant message, and went on to the next step
\* without calling anything and without touching the failure streak
OneNoteNoCall ==
  /\ ResponseRecorded
  /\ Len(appended_after) = 1
  /\ appended_after[1].role = "system" /\ appended_after[1].parent = assistant_id
  /\ called' = <<>> /\ tool_calls' = tool_calls
  /\ last_tool_error_streak' = last_tool_error_streak
  /\ last_tool_name' = last_tool_name
  /\ pc' = "running" /\ exc' = "" /\ step' = step + 1 /\ llm_calls' = llm_calls + 1
  /\ UNCHANGED <<function_map, instructions, max_steps>>
tokens(s) == {s[i] : i \in 1..Len(s)}

\* C9: in simple_agent.ReactAgent.run, a response that cannot be decoded is
\* still appended as an assistant message, exactly one corrective system
\* message (naming the two call markers) follows it, no tool is invoked, the
\* failure streak and the last failed tool's name stay as they were, and the
\* iteration consumes one step.
C9_FormatErrorRecordedNotCounted ==
  [][SimpleAnswered =>
       \A parsed \in {parse(normalize_response(answer))} :
         ~parsed.ok =>
           /\ OneNoteNoCall
           /\ {BEGIN_CALL, END_CALL} \subseteq tokens(appended_after[1].content)]_vars

\* an undecodable response came after a failed tool call, whose streak stands
C9_Witness ==
  /\ kind = "simple" /\ pc = "running" /\ step = 2 /\ response = <<"thinking">>
  /\ last_tool_error_streak = 1 /\ last_tool_name # <<>>
  /\ id_to_message[Len(id_to_message)].content = FormatErrorMessage
  /\ id_to_message[Len(id_to_message) - 1].content = <<"thinking">>

\* C10: in simple_agent.ReactAgent.run, when the decoded name is not in the
\* registry, nothing is called, exactly one system message listing the
\* names of the registered tools is appended, the failure streak stays as it
\* was, and the loop goes on with the next iteration.
C10_UnknownToolListedNotCounted ==
  [][SimpleAnswered =>
       \A parsed \in {parse(normalize_response(answer))} :
         (parsed.ok /\ ~registered(function_map, parsed.name)) =>
           /\ OneNoteNoCall
           /\ \A i \in 1..Len(function_map) :
                function_map[i].name \in tokens(appended_after[1].content)
           /\ appended_after[1].content[1] = "Unknown tool '"]_vars

\* a call of an unregistered tool came after a failed tool call
C10_Witness ==
  /\ kind = "simple" /\ pc = "running" /\ step = 2
  /\ response = encode("nope", <<>>)
  /\ last_tool_error_streak = 1 /\ last_tool_name # <<>>
  /\ id_to_message[Len(id_to_message)].content[1] = "Unknown tool '"

\* ---- the failure streak of simple_agent.ReactAgent.run
\* the iteration appended, after the assistant message, exactly one system
\* message, as the last child of message parent_id, and left the cursor on it
OneNoticeUnder(parent_id) ==
  \A tail \in {appended_after}, after \in {id_to_message'} :
    /\ Len(tail) = 1 /\ tail[1].role = "system" /\ tail[1].parent = parent_id
    /\ after[parent_id + 1].children # <<>>
    /\ after[parent_id + 1].children[Len(after[parent_id + 1].children)]
         = tail[1].unique_id
    /\ current_message_id' = tail[1].unique_id
\* the streak a failure of tool name makes of the streak so far
counted_streak(name) ==
  IF name = last_tool_name THEN last_tool_error_streak + 1 ELSE 1

\* C11: in simple_agent.ReactAgent.run a failure of the tool that failed last
\* adds 1 to the streak, a failure of another tool sets it to 1, a successful
\* tool execution sets it to 0, and an iteration that calls nothing leaves it
\* as it was.  When the streak reaches 2 the iteration backtracks to the user
\* message (id 1), appends one system notice as a child of it and resets the
\* streak to 0; below 2 it appends one error message under the assistant
\* message and the cursor stays on the new branch.
C11_StreakAndAutoBacktrack ==
  [][SimpleAnswered =>
       \A made \in {called'} :
         /\ made = <<>> =>
              /\ last_tool_error_streak' = last_tool_error_streak
              /\ last_tool_name' = last_tool_name
         /\ (Len(made) = 1 /\ ~made[1].raised) =>
              last_tool_error_streak' = 0 /\ last_tool_name' = <<>>
         /\ (Len(made) = 1 /\ made[1].raised /\ counted_streak(made[1].name) < 2) =>
              /\ last_tool_error_streak' = 1 /\ last_tool_name' = made[1].name
              /\ OneNoticeUnder(assistant_id)
              /\ appended_after[1].content[1] = "Tool '"
              /\ pc' = "running" /\ step' = step + 1
         /\ (Len(made) = 1 /\ made[1].raised /\ counted_streak(made[1].name) >= 2) =>
              /\ counted_streak(made[1].name) = 2
              /\ last_tool_error_streak' = 0 /\ last_tool_name' = <<>>
              /\ OneNoticeUnder(1)
              /\ id_to_message'[2].role = "user"
              /\ appended_after[1].content[1] = "AUTO-BACKTRACK applied due to repeated '"
              /\ instructions' = StuckInstructions
              /\ pc' = "running" /\ step' = step + 1
         /\ last_tool_error_streak' \in {0, 1}]_vars

\* the same tool failed twice and the run backtracked to the user message
C11_Witness ==
  /\ kind = "simple" /\ pc = "running" /\ step = 2
  /\ Len(called) = 1 /\ called[1].raised
  /\ last_tool_error_streak = 0 /\ instructions = StuckInstructions
  /\ id_to_message[Len(id_to_message)].parent = 1
  /\ id_to_message[Len(id_to_message)].content[1]
       = "AUTO-BACKTRACK applied due to repeated '"

\* ---- finish in both loops
\* the step is an iteration of either loop that called finish
FinishCalled ==
  /\ pc = "running" /\ last_op' = Op("iteration", "") /\ ops' = ops + 1
  /\ Len(called') = 1 /\ called'[1].name = <<"finish">>
\* a system message appended by the step holds the text
ErrorRecorded(text) ==
  \E i \in (Len(id_to_message) + 1)..Len(id_to_message') :
    /\ id_to_message'[i].role = "system"
    /\ Contains(id_to_message'[i].content, text)

\* C12: in both loops, when the callable registered as finish raises, run
\* does not return in that iteration: it goes on to the next one, a system
\* message holds the error, and the failure is counted as any tool failure
\* is (the streak of simple_agent, the recent actions of agent.py).  A call
\* of finish that returns makes run return the value it returned.
C12_FinishFailureDoesNotReturn ==
  [][/\ (FinishCalled /\ called'[1].raised) =>
          /\ pc' = "running" /\ step' = step + 1 /\ exc' = "" /\ result' = <<>>
          /\ ErrorRecorded(called'[1].value)
          /\ kind = "simple" =>
               IF counted_streak(<<"finish">>) >= 2
               THEN last_tool_error_streak' = 0 /\ OneNoticeUnder(1)
               ELSE last_tool_error_streak' = 1 /\ last_tool_name' = <<"finish">>
          /\ (kind = "agent" /\ Len(recent_actions) < 10) =>
               recent_actions' = Append(recent_actions,
                                   <<"finish", ":">> \o prefix(called'[1].value))
     /\ (FinishCalled /\ ~called'[1].raised) =>
          pc' = "returned" /\ result' = called'[1].value /\ exc' = ""]_vars

\* agent.ReactAgent.run returned from its second call of finish, the first
\* one having raised
C12_Witness ==
  /\ kind = "agent" /\ pc = "returned" /\ llm_calls = 2 /\ step = 1
  /\ Len(called) = 1 /\ called[1].name = <<"finish">> /\ ~called[1].raised
  /\ result = called[1].value
  /\ recent_actions # <<>> /\ recent_actions[1][1] = "finish"
  /\ \E i \in 1..Len(id_to_message) :
       Contains(id_to_message[i].content, <<"Error executing tool '", "finish">>)

\* C13: finish fails with a validation error whenever git reports no change
\* to the working tree, in simple_agent.ReactAgent and in agent.ReactAgent:
\* an iteration whose finish call found the tree clean sees the call raise
\* and does not return.
C13_FinishFailsWithoutChanges ==
  [][(FinishCalled /\ called'[1].git = "clean") =>
       called'[1].raised /\ pc' # "returned"]_vars

\* ---- finish as the first response of agent.ReactAgent.run
\* the step is the first iteration of a run, and the response is a
\* well-formed finish(result = R)
AgentFinishFirst ==
  /\ kind = "agent" /\ pc = "running" /\ last_op' = Op("iteration", "")
  /\ ops' = ops + 1 /\ llm_calls = 0 /\ llm_calls' = 1
  /\ \A parsed \in {parse(response')} : IsFinishCall(parsed)
\* an assistant message, the response included, holds the word
Mentions(w) ==
  \E i \in 1..Len(id_to_message') :
    /\ id_to_message'[i].role = "assistant"
    /\ has_word(id_to_message'[i].content, w)

BacktrackOutOfRange(at) ==
  /\ kind = "simple" /\ last_op' = Op("backtrack", at) /\ ops' = ops + 1
  /\ int_ok(<<at>>)
  /\ int_of(<<at>>) < 0 \/ int_of(<<at>>) >= Len(id_to_message)

\* C15 (amended): a call of simple_agent.ReactAgent
\* .add_instructions_and_backtrack with an id out of range (negative, or >=
\* the number of messages) never raises, updates the instructions, changes no
\* message and leaves the cursor on the message it was on, which exists.  In
\* run, such a call by the LLM returns "Invalid backtrack id; instructions
\* updated." and its result message goes under the step's assistant message.
C15_OutOfRangeBacktrackKeepsCursor ==
  [][/\ \A at \in ApiIds :
          BacktrackOutOfRange(at) =>
            /\ exc' = "" /\ pc' = pc
            /\ instructions' = <<"retry">>
            /\ id_to_message' = id_to_message
            /\ current_message_id' = current_message_id
            /\ 0 <= current_message_id' /\ current_message_id' < Len(id_to_message')
     /\ (ToolReturned /\ called'[1].name = <<"add_instructions_and_backtrack">>
           /\ \A given \in { parse(normalize_response(answer)).arguments[<<"at_message_id">>] } :
                int_ok(given) /\ (int_of(given) < 0 \/ int_of(given) > assistant_id)) =>
          /\ called'[1].value = <<"Invalid backtrack id; instructions updated.">>
          /\ OneResultUnder(assistant_id, <<"Result:", NL>> \o called'[1].value)
          /\ exc' = ""]_vars

\* a caller backtracked to id 9 with the cursor on message 2: it stayed there
C15_Witness ==
  /\ kind = "simple" /\ last_op = Op("backtrack", "9") /\ exc = ""
  /\ Len(id_to_message) = 3 /\ current_message_id = 2
  /\ instructions = <<"retry">>

\* C15 as stated: the cursor falls back to the user message
C15_OutOfRangeFallsBackToUser ==
  [][\A at \in ApiIds :
       BacktrackOutOfRange(at) =>
         exc' = "" /\ current_message_id' = simple_user_message_index]_vars

\* ---- ResponseParser.parse
\* parse has been applied to the text in response
Parsed == kind = "parser" /\ pc = "parsed"
\* the keys of the arguments written, and the mapping they make: the value
\* of a key is the one written last
keys_of(args) == { <<args[i][1]>> : i \in 1..Len(args) }
mapping(args) ==
  [k \in keys_of(args) |->
     args[Max({i \in 1..Len(args) : <<args[i][1]>> = k})][2]]
\* the words of the earlier of two calls
EarlierWords == {"f1", "k1", "v1"}
has_any(s, words) == \E i \in 1..Len(s) : s[i] \in words

\* C16: of a text with two well-formed calls, one after the other, parse
\* returns the name and the arguments of the later call only: no word of the
\* earlier call is in the name or in an argument name or value returned.
C16_LaterCallOnly ==
  (Parsed /\ Len(written.calls) = 2) =>
    \A d \in {decoded[1]}, later \in {written.calls[2]} :
      /\ d.ok /\ d.name = <<later.name>>
      /\ DOMAIN d.arguments = keys_of(later.args)
      /\ \A k \in DOMAIN d.arguments :
           /\ d.arguments[k] = rstrip(mapping(later.args)[k])
           /\ ~has_any(k, EarlierWords) /\ ~has_any(d.arguments[k], EarlierWords)
      /\ ~has_any(d.name, EarlierWords)

\* the earlier call had the argument k, the later call has no argument, and
\* parse returned the later name with no argument
C16_Witness ==
  /\ Parsed /\ Len(written.calls) = 2
  /\ Len(written.calls[1].args) = 2 /\ written.calls[2].args = <<>>
  /\ decoded[1].ok /\ decoded[1].name = <<"f">> /\ DOMAIN decoded[1].arguments = {}

\* the positions of the markers in response, as the text shows them
last_end == Max({0} \cup {i \in 1..Len(response) : response[i] = END_CALL})
begin_before_end ==
  Max({0} \cup {i \in 1..Len(response) : i < last_end /\ response[i] = BEGIN_CALL})

\* C17: parse raises a format error for every text without an end marker,
\* and for every text with an end marker and no begin marker before the last
\* end marker; the error names the missing marker.
C17_MissingMarkerIsFormatError ==
  Parsed =>
    \A d \in {decoded[1]} :
      /\ last_end = 0 =>
           ~d.ok /\ exc = "ValueError"
           /\ d.error = <<"Missing ", END_CALL, " marker in response">>
      /\ (last_end > 0 /\ begin_before_end = 0) =>
           ~d.ok /\ exc = "ValueError"
           /\ d.error = <<"Missing ", BEGIN_CALL, " marker in response">>

\* a text whose only begin marker comes after its end marker was refused
C17_Witness ==
  /\ Parsed /\ response = <<END_CALL, BEGIN_CALL, "f">>
  /\ ~decoded[1].ok /\ decoded[1].error[2] = BEGIN_CALL

\* the first segment of the call body: from the begin marker to the first
\* argument separator after it, or to the end marker
first_segment ==
  SubSeq(response, begin_before_end + 1,
         Min({last_end} \cup {i \in (begin_before_end + 1)..last_end :
                                response[i] = ARG_SEP}) - 1)

\* C18: parse raises a format error for every call body whose first segment,
\* between the begin marker and the first argument separator or the end
\* marker, is empty or white space only.
C18_EmptyNameIsFormatError ==
  (Parsed /\ last_end > 0 /\ begin_before_end > 0
     /\ \A i \in 1..Len(first_segment) : IsSpace(first_segment[i])) =>
    /\ ~decoded[1].ok /\ exc = "ValueError"
    /\ decoded[1].error = <<"Function name is empty">>

\* a call body that starts with white space and a separator was refused
C18_Witness ==
  /\ Parsed /\ response = <<BEGIN_CALL, SP, ARG_SEP, END_CALL>>
  /\ ~decoded[1].ok /\ decoded[1].error = <<"Function name is empty">>

\* one call was written out in the response format and parsed
RoundTrip == Parsed /\ Len(written.calls) = 1
\* the arguments are a mapping: no key twice
IsMapping(args) == Cardinality(keys_of(args)) = Len(args)
\* no line of the value is the separator
NoSeparatorLine(value) ==
  \A i \in 1..Len(splitlines(value)) : splitlines(value)[i] # <<ARG_SEP>>
\* the value has neither a separator nor a begin marker, and no white space
\* at its end
Decodable(value) ==
  /\ \A i \in 1..Len(value) : value[i] \notin {ARG_SEP, BEGIN_CALL}
  /\ rstrip(value) = value

\* C19 (amended): for every name N and every mapping A of argument names to
\* values, where N and the argument names are words without white space,
\* and no value has a separator or a begin marker anywhere or white space at
\* its end, parsing the call written out in the response format yields N
\* and A.  Values may have several lines, indentation and end markers.
C19_RoundTripOfDecodableCalls ==
  RoundTrip =>
    \A call \in {written.calls[1]}, d \in {decoded[1]} :
      (/\ ~IsSpace(call.name) /\ IsMapping(call.args)
       /\ \A i \in 1..Len(call.args) :
            ~IsSpace(call.args[i][1]) /\ Decodable(call.args[i][2])) =>
        d.ok /\ d.name = <<call.name>> /\ d.arguments = mapping(call.args)

\* a mapping of two names, one value holding an end marker, came back as it was
C19_Witness ==
  /\ RoundTrip /\ decoded[1].ok
  /\ written.calls[1].args = << <<"k", <<END_CALL, "v">> >>, <<"j", <<"w">> >> >>
  /\ decoded[1].arguments = mapping(written.calls[1].args)

\* C19 as stated: for every non-empty N without markers and every mapping A
\* whose values have no line that is the separator, parsing the call written
\* out yields N and A
C19_RoundTrip ==
  RoundTrip =>
    \A call \in {written.calls[1]}, d \in {decoded[1]} :
      (/\ IsMapping(call.args)
       /\ \A i \in 1..Len(call.args) : NoSeparatorLine(call.args[i][2])) =>
        d.ok /\ d.name = <<call.name>> /\ d.arguments = mapping(call.args)

\* C20: parse keeps the leading white space of every line of an argument
\* value, the first line included, and the white space at the end of every
\* line but the last: of the value written it removes the white space at the
\* end of the whole value and nothing else.
C20_IndentationKept ==
  (RoundTrip /\ ~IsSpace(written.calls[1].name) /\ Len(written.calls[1].args) = 1) =>
    \A key \in {written.calls[1].args[1][1]}, value \in {written.calls[1].args[1][2]},
       d \in {decoded[1]} :
      (~IsSpace(key) /\ value \in PlainValues) =>
        /\ d.ok /\ DOMAIN d.arguments = {<<key>>}
        /\ d.arguments[<<key>>] = rstrip(value)
        /\ \A n \in 1..Len(value) :
             ~IsSpace(value[n]) => SubSeq(d.arguments[<<key>>], 1, n) = SubSeq(value, 1, n)

\* a value of two indented lines with white space at its end came back
\* without that white space only
C20_Witness ==
  /\ RoundTrip
  /\ written.calls[1].args = << <<"k", <<SP, "v", NL, SP, "v", SP>> >> >>
  /\ decoded[1].ok /\ decoded[1].arguments[<<"k">>] = <<SP, "v", NL, SP, "v">>

\* ---- what run returns
\* run returned from a call of finish
Finished ==
  /\ pc = "returned" /\ last_op = Op("iteration", "")
  /\ Len(called) = 1 /\ called[1].name = <<"finish">> /\ ~called[1].raised

\* C21: the value run returns when the step limit is reached is distinct
\* from every value a call of finish makes run return, whatever result the
\* LLM passes to finish: a run that returned from finish did not return the
\* step-limit text of its agent.
C21_SentinelDistinctFromFinish ==
  Finished => result # StepLimit

\* ---- the steps of one run of simple_agent.ReactAgent
\* an iteration after which the loop goes on: step k, with step k+1 to come
SimpleContinues == SimpleAnswered /\ pc' = "running"

\* the message the iteration appended last is what it made of the response:
\* a system message appended after the assistant message, with the cursor on it
OutcomeRecorded ==
  /\ Len(id_to_message') >= assistant_id + 2
  /\ id_to_message'[Len(id_to_message')].role = "system"
  /\ current_message_id' = Len(id_to_message') - 1

\* the context _build_context makes of the state the iteration leaves, which
\* is the prompt of the next LLM call, ends with the outcome message
NextContextHasOutcome ==
  \A after \in {self'} :
    \A recorded \in {after.id_to_message[Len(after.id_to_message)]} :
      /\ walk(after.id_to_message, after.current_message_id, {}).status = "ok"
      /\ \A visible \in {simple_visible_ids(after)} :
           visible # <<>> /\ visible[Len(visible)] = recorded.unique_id
      /\ \A parts \in {simple_transcript_parts(after)} :
           parts[Len(parts)] = <<"[", "system", "]", NL>> \o recorded.content \o <<NL>>
      /\ EndsWith(simple_build_context(after),
                  <<NL, "[", "system", "]", NL>> \o recorded.content \o <<NL>>)

\* C22: within one run of simple_agent.ReactAgent the steps are strictly
\* sequential: an iteration makes one LLM call and invokes at most one
\* callable after it, the message that records the outcome of the step is
\* appended before the iteration ends (so before the LLM call of the next
\* step), and the context built for the next step contains that message.
C22_StepsSequential ==
  [][SimpleContinues =>
       /\ llm_calls' = llm_calls + 1
       /\ Len(called') <= 1 /\ tool_calls' = tool_calls + Len(called')
       /\ ResponseRecorded
       /\ OutcomeRecorded
       /\ NextContextHasOutcome]_vars

\* a second step of a run went on from the first, and invoked a callable
C22_Witness ==
  /\ kind = "simple" /\ pc = "running" /\ last_op = Op("iteration", "")
  /\ llm_calls = 2 /\ Len(called) = 1
  /\ id_to_message[Len(id_to_message)].role = "system"
  /\ Contains(simple_build_context(self), id_to_message[Len(id_to_message)].content)

\* ---- the error messages of a step of agent.ReactAgent.run
\* an iteration of agent.ReactAgent.run after which the loop goes on
AgentContinues ==
  /\ kind = "agent" /\ pc = "running" /\ last_op' = Op("iteration", "")
  /\ ops' = ops + 1 /\ pc' = "running"

\* the messages run appends for an error: a failed tool call, an unknown
\* tool, an error caught by the loop (a format error among them), and the
\* notice of an automatic backtrack
IsErrorMessage(message) ==
  /\ message.role = "system" /\ message.content # <<>>
  /\ message.content[1] \in {"Error executing tool '", "Error: Function '",
                              "Error in agent loop: ",
                              "AUTO-BACKTRACK TRIGGERED (Step "}
\* the ids of the messages the iteration appended
AppendedIds == Len(id_to_message)..(Len(id_to_message') - 1)

\* C23: in agent.ReactAgent.run every error message appended during a step
\* (format error, unknown tool, tool failure, notice of an automatic
\* backtrack) lies on the root-to-current path from which the context of the
\* next step is built, also when the step ended with an automatic backtrack.
C23_ErrorsOnNextPath ==
  [][AgentContinues =>
       \A after \in {self'} : \A walked \in {get_context(after)} :
         /\ walked.status = "ok"
         /\ \A id \in AppendedIds :
              IsErrorMessage(after.id_to_message[id + 1]) =>
                \E i \in 1..Len(walked.path) : walked.path[i] = id]_vars

\* ---- the threads of the batch driver
\* the step changed the thread of w and no other
OnlyChanged(w) == \A v \in Instances \ {w} : batch'[v] = batch[v]

HasToolsOrFormat(segment) ==
  \/ Contains(segment, <<"--- AVAILABLE TOOLS ---">>)
  \/ Contains(segment, <<"--- RESPONSE FORMAT ---">>)

\* C25: in the context of agent.ReactAgent the tool descriptions and the
\* response format are rendered exactly once, in the first segment (that of
\* the root system message), however many system-role messages lie on the
\* path; no other segment holds them.
C25_ToolsRenderedOnce ==
  (kind = "agent" /\ get_context(self).status = "ok") =>
    \A segments \in {context_parts(self)} :
      segments # <<>> =>
        /\ Contains(segments[1], <<"--- AVAILABLE TOOLS ---">>)
        /\ Contains(segments[1], <<"--- RESPONSE FORMAT ---">>)
        /\ \A i \in 2..Len(segments) : ~HasToolsOrFormat(segments[i])

\* ---- the transcript of simple_agent.ReactAgent
\* the first line of a rendered message: its header
header_of(part) == split1(part, NL)[1]

\* C26: in simple_agent.ReactAgent._build_context every message on the
\* root-to-current path is rendered, in the order of the path, with a header
\* that identifies both its role and its id, followed by its content.
C26_HeaderHasRoleAndId ==
  (kind = "simple" /\ walk(id_to_message, current_message_id, {}).status = "ok") =>
    \A visible \in {simple_visible_ids(self)}, parts \in {simple_transcript_parts(self)} :
      /\ Len(parts) = Len(visible)
      /\ \A i \in 1..Len(visible) :
           \A msg \in {id_to_message[visible[i] + 1]} :
             /\ Contains(header_of(parts[i]), <<msg.role>>)
             /\ Contains(header_of(parts[i]), <<str_of(msg.unique_id)>>)
             /\ EndsWith(parts[i], msg.content \o <<NL>>)

\* ---- the contexts of successive steps
\* the segments of the context the agent builds: one for each message it
\* renders
Segments(a) == IF kind = "simple" THEN simple_transcript_parts(a) ELSE context_parts(a)

IsPrefix(s, t) == Len(s) <= Len(t) /\ SubSeq(t, 1, Len(s)) = s

\* an iteration of run that built its context and after which the loop goes on
StepContinues ==
  /\ SimpleAnswered \/ AgentContinues
  /\ pc' = "running"
  /\ walk(id_to_message, current_message_id, {}).status = "ok"

\* the iteration moved the cursor back: the LLM called
\* add_instructions_and_backtrack, or the loop backtracked by itself
Backtracked ==
  \/ \E i \in 1..Len(called') : called'[i].name = <<"add_instructions_and_backtrack">>
  \/ \E id \in AppendedIds :
       /\ id_to_message'[id + 1].content # <<>>
       /\ id_to_message'[id + 1].content[1]
            \in {"AUTO-BACKTRACK applied due to repeated '", "AUTO-BACKTRACK TRIGGERED (Step "}

\* every message rendered in the context of the step is rendered, at the
\* same place, in the context of the next step
ContextGrows ==
  \A after \in {self'} :
    /\ walk(after.id_to_message, after.current_message_id, {}).status = "ok"
    /\ \A before_segments \in {Segments(self)}, after_segments \in {Segments(after)} :
         /\ IsPrefix(before_segments, after_segments)
         /\ Len(after_segments) > Len(before_segments)

\* C27: within one run the context is never truncated and grows
\* monotonically: every message rendered in the context of step k is also
\* rendered in the context of step k+1.
C27_ContextGrows ==
  [][StepContinues => ContextGrows]_vars

\* C27 (amended): within one run the context grows monotonically over every
\* step that does not backtrack: when the step neither called
\* add_instructions_and_backtrack nor backtracked automatically, every
\* message rendered in the context of step k is also rendered in the context
\* of step k+1, followed by the messages of step k.
C27_ContextGrowsUnlessBacktracked ==
  [][(StepContinues /\ ~Backtracked) => ContextGrows]_vars

\* a second step that did not backtrack went on, with the result of its
\* tool call at the end of the path
C27_Witness ==
  /\ pc = "running" /\ last_op = Op("iteration", "") /\ llm_calls = 2
  /\ Len(called) = 1 /\ called[1].name = <<"run_bash_cmd">> /\ ~called[1].raised
  /\ current_message_id = Len(id_to_message) - 1
  /\ Len(get_context(self).path) >= 6

\* ---- the failure streak across a backtrack
\* add_instructions_and_backtrack of simple_agent.ReactAgent was just
\* called: by a caller between runs, or as the tool of the last iteration
SimpleBacktrackCalled ==
  /\ kind = "simple"
  /\ \/ last_op.name = "backtrack"
     \/ /\ last_op = Op("iteration", "")
        /\ \E i \in 1..Len(called) : called[i].name = <<"add_instructions_and_backtrack">>

\* C28: after any call of simple_agent.ReactAgent.add_instructions_and_backtrack,
\* dispatched by the loop or made by the driver between two runs, the
\* failure streak is 0 and the name of the last failed tool is empty, so no
\* streak carries into the retry run.
C28_BacktrackResetsStreak ==
  SimpleBacktrackCalled => last_tool_error_streak = 0 /\ last_tool_name = <<>>

\* ---- the tool registry
\* the names of a list of tools
NamesOf(tools) == {tools[i].name : i \in 1..Len(tools)}

\* the tool of the list that comes last under the name
LastNamed(tools, name) ==
  tools[Max({i \in 1..Len(tools) : tools[i].name = name})]

\* the registry holds one entry for each name
OneEntryPerName(fmap) ==
  \A i, j \in 1..Len(fmap) : fmap[i].name = fmap[j].name => i = j

\* the entry of the registry under the name
EntryOf(fmap, name) == fmap[CHOOSE i \in 1..Len(fmap) : fmap[i].name = name]

\* add_functions(tools) was called with the list of the key
Registers(key) == last_op' = Op("add_functions", key) /\ key \in DOMAIN ToolLists

\* the iteration dispatched a call of run_bash_cmd with a description
DispatchesDescribed ==
  /\ pc = "running" /\ last_op' = Op("iteration", "")
  /\ response' = BashDescribed /\ "run_bash_cmd" \in NamesOf(function_map)

\* C29: registering a tool under a name already registered replaces the
\* earlier callable: after add_functions the registry holds exactly one
\* entry per name, the entry of each name registered is the callable given
\* last under it, every other name keeps its entry, and dispatch invokes the
\* callable the registry holds.
C29_LastRegistrationWins ==
  [][/\ \A key \in {"minimal", "swe", "both", "builtin"} :
          Registers(key) =>
            \A tools \in {ToolLists[key]} :
              /\ OneEntryPerName(function_map')
              /\ NamesOf(function_map') = NamesOf(function_map) \cup NamesOf(tools)
              /\ \A name \in NamesOf(tools) :
                   EntryOf(function_map', name) = LastNamed(tools, name)
              /\ \A name \in NamesOf(function_map) \ NamesOf(tools) :
                   EntryOf(function_map', name) = EntryOf(function_map, name)
     /\ DispatchesDescribed =>
          /\ Len(called') = 1 /\ called'[1].name = <<"run_bash_cmd">>
          /\ (EntryOf(function_map, "run_bash_cmd") = swe_run_bash_cmd_tool) =>
               /\ called'[1].raised
               /\ called'[1].value = TypeErrorMessage(swe_run_bash_cmd_tool)
          /\ (EntryOf(function_map, "run_bash_cmd") = run_bash_cmd_tool) =>
               \E ext \in ExtOutcomes :
                 called'[1].raised = ext.raised /\ called'[1].value = ext.value]_vars

\* run_bash_cmd was registered twice in one call, and the callable given
\* last, which takes no description, was invoked
C29_Witness ==
  /\ last_op = Op("iteration", "") /\ response = BashDescribed
  /\ Len(called) = 1 /\ called[1].raised
  /\ called[1].value = TypeErrorMessage(swe_run_bash_cmd_tool)
  /\ EntryOf(function_map, "run_bash_cmd") = swe_run_bash_cmd_tool

\* ---- setting the content of a message
\* the content of the message of the id was set, or was tried to
ContentSet(id) == last_op' = Op("set_message", str_of(id))

\* C30: setting the content of a message fails for every id out of range
\* (id < 0 or id >= the number of messages) and leaves the content of every
\* message unchanged.
C30_SetContentOutOfRangeFails ==
  [][\A id \in SetIds :
       (ContentSet(id) /\ (id < 0 \/ id >= Len(id_to_message))) =>
         exc' = "IndexError" /\ id_to_message' = id_to_message]_vars

\* ------------------------------------------- stuck detection over a long run
StartsWith(message, head) ==
  message.role = "system" /\ message.content # <<>> /\ message.content[1] = head
IsNotice(message) == StartsWith(message, "AUTO-BACKTRACK TRIGGERED (Step ")
IsToolError(message) == StartsWith(message, "Error executing tool '")
IsReflection(message) == StartsWith(message, "The tool call ")

\* the step appended a message of the given kind
Appends(Is(_)) == \E id \in AppendedIds : Is(id_to_message'[id + 1])

\* the ids of the notices of automatic backtracks so far
NoticeIds == {i \in 1..Len(id_to_message) : IsNotice(id_to_message[i])}

\* an automatic backtrack has happened and no tool call has failed since
NoFailureSinceBacktrack ==
  /\ NoticeIds # {}
  /\ \A i \in 1..Len(id_to_message) :
       IsToolError(id_to_message[i]) => \E n \in NoticeIds : n > i

\* C31: after an automatic backtrack of agent.ReactAgent the first tool
\* failure that follows is reported below threshold, with the error and the
\* reflection message, and does not trigger another automatic backtrack.
C31_FirstFailureAfterBacktrackBelowThreshold ==
  [][(AgentContinues /\ NoFailureSinceBacktrack /\ Appends(IsToolError)) =>
       (Appends(IsReflection) /\ ~Appends(IsNotice))]_vars


IsToolSuccess(message) == StartsWith(message, "Tool '")
\* the outcomes of the tool executions after the step, oldest first
ToolOutcomesAfter ==
  SelectSeq(id_to_message', LAMBDA m : IsToolError(m) \/ IsToolSuccess(m))

\* C32: an automatic backtrack of agent.ReactAgent.run is triggered only by
\* a run of tool failures that no successful tool execution interrupts: the
\* failure that triggers it and the two tool executions before it all failed
\* (three being the smallest threshold of _is_stuck).
C32_BacktrackOnlyAfterUninterruptedFailures ==
  [][(AgentContinues /\ Appends(IsNotice)) =>
       \A outcomes \in {ToolOutcomesAfter} :
         /\ Len(outcomes) >= 3
         /\ \A i \in (Len(outcomes) - 2)..Len(outcomes) : IsToolError(outcomes[i])]_vars


\* the ids from the root to the last message the step appended
PathToLastAppended ==
  walk(id_to_message', Len(id_to_message') - 1, {}).path

\* C38: whenever _auto_backtrack of agent.ReactAgent moves the cursor, the
\* target is an existing message and an ancestor of the message that was
\* current when the backtrack was triggered, so that no automatic backtrack
\* enters a branch an earlier backtrack abandoned.
C38_AutoBacktrackTargetsAncestor ==
  [][(AgentContinues /\ Appends(IsNotice)) =>
       \A branch \in {PathToLastAppended} :
         /\ current_message_id' \in 0..(Len(id_to_message') - 1)
         /\ \E i \in 1..Len(branch) : branch[i] = current_message_id']_vars


\* ---- finish when no test passed
\* a message recording the outcome of a tool call holds the word
ToolResultHas(w) ==
  \E i \in 1..Len(id_to_message) :
    /\ IsToolSuccess(id_to_message[i]) \/ IsToolError(id_to_message[i])
    /\ has_word(id_to_message[i].content, w)
PytestReportedUnavailable ==
  \E i \in 1..Len(id_to_message) :
    /\ id_to_message[i].role = "system"
    /\ has_word(id_to_message[i].content, "No module named pytest")

\* C33: agent.ReactAgent.finish refuses to finish when tests were run but
\* none passed: if some assistant message mentions a test command, no
\* tool-result message contains PASSED and pytest is not reported
\* unavailable, finish raises and run does not terminate in that step.
C33_FinishRefusedWithoutPassed ==
  [][(/\ kind = "agent" /\ FinishCalled
      /\ Mentions("pytest") \/ Mentions("python -c") \/ Mentions("python -m")
           \/ Mentions("test")
      /\ ~ToolResultHas("PASSED") /\ ~PytestReportedUnavailable) =>
       (called'[1].raised /\ pc' = "running")]_vars


\* ---- normalisation before parsing
\* the written response was normalised and then parsed
ParsedNormalized == kind = "parser" /\ pc = "parsed" /\ last_op = Op("parse", "normalized")
\* what parse makes of the response as written
ParsedAsWritten == parse(render(written))
SameCall(p, q) ==
  /\ p.ok = q.ok
  /\ p.ok => (p.name = q.name /\ p.arguments = q.arguments)

\* C34 as stated: for every response in the wire format, parsing the
\* normalised response returns the name and the arguments that parsing the
\* response itself returns.
C34_NormalizeKeepsCall ==
  ParsedNormalized => SameCall(decoded[1], ParsedAsWritten)


\* every line of the text that starts, white space aside, with "----ARG" is
\* the separator and nothing else
SeparatorsOnOwnLines(text) ==
  \A ln \in {strip(splitlines(text)[i]) : i \in 1..Len(splitlines(text))} :
    (ln # <<>> /\ ln[1] \in {ARG_SEP, ARG_TYPO}) => ln = <<ARG_SEP>>
\* the text holds no carriage return and no end marker directly after another
PlainLineEnds(text) == \A i \in 1..Len(text) : text[i] # CR
NoRepeatedEnd(text) ==
  \A i \in 1..(Len(text) - 1) : ~(text[i] = END_CALL /\ text[i + 1] = END_CALL)

\* C34 (amended): for every response in the wire format whose lines end in
\* "\n" only, in which every line starting with "----ARG" is exactly the
\* separator and no end marker directly follows another, parsing the
\* normalised response returns the name and the arguments that parsing the
\* response itself returns.
C34_NormalizeKeepsCanonicalCall ==
  \A text \in {render(written)} :
    (/\ ParsedNormalized
     /\ SeparatorsOnOwnLines(text) /\ PlainLineEnds(text) /\ NoRepeatedEnd(text)) =>
      SameCall(decoded[1], parse(text))

\* a response whose value holds a separator within a line and an end marker
\* was normalised and parsed to a call
C34_Witness ==
  /\ ParsedNormalized /\ decoded[1].ok
  /\ written.calls[1].args[1][2] = <<"v", ARG_SEP>>
  /\ written.pre # <<>>


\* ---- the failure state of simple_agent.ReactAgent.run between iterations
\* C35: at the start of every iteration of simple_agent.ReactAgent.run the
\* failure state is either a streak of 0 with an empty last-failed-tool
\* name, or a streak of 1 with a non-empty name; the streak is never 2 or
\* more where an iteration begins.
C35_StreakShapeBetweenIterations ==
  (kind = "simple" /\ pc = "running") =>
    \/ last_tool_error_streak = 0 /\ last_tool_name = <<>>
    \/ last_tool_error_streak = 1 /\ last_tool_name # <<>>

\* the next iteration starts after one failure of a tool
C35_Witness ==
  /\ kind = "simple" /\ pc = "running" /\ step < max_steps
  /\ Len(called) = 1 /\ called[1].raised
  /\ last_tool_error_streak = 1 /\ last_tool_name = called[1].name


\* ---- the messages an iteration of simple_agent.ReactAgent.run appends
\* the number of assistant messages in the tree
AssistantCount ==
  Cardinality({i \in 1..Len(id_to_message) : id_to_message[i].role = "assistant"})
\* run is in its first loop on an agent nobody else added messages to: every
\* assistant message is the response of one of its iterations so far
InFirstRun == AssistantCount = step

\* C36: every iteration of simple_agent.ReactAgent.run that goes on to the
\* next appends exactly two messages, the assistant message and then one
\* system message; after k such iterations of a first run the tree holds
\* 2 + 2k messages; and the next iteration starts with the cursor on the
\* message created last.
C36_TwoMessagesPerIteration ==
  [][SimpleContinues =>
       \A before \in {id_to_message}, after \in {id_to_message'} :
         /\ Len(after) = Len(before) + 2
         /\ after[Len(before) + 1].role = "assistant"
         /\ after[Len(before) + 2].role = "system"
         /\ \A i \in 1..Len(before) :
              after[i].role = before[i].role /\ after[i].content = before[i].content
         /\ current_message_id' = Len(after) - 1
         /\ InFirstRun => Len(after) = 2 + 2 * step']_vars

\* two iterations of a first run went on, the second with an automatic
\* backtrack: six messages, the cursor on the last
C36_Witness ==
  /\ kind = "simple" /\ pc = "running" /\ step = 2 /\ AssistantCount = 2
  /\ Len(id_to_message) = 6 /\ current_message_id = 5
  /\ id_to_message[6].parent = 1


\* ---- the task in the context of simple_agent.ReactAgent
\* the user-task message lies on the path _build_context walks
TaskVisible(a) ==
  \E i \in 1..Len(simple_visible_ids(a)) :
    simple_visible_ids(a)[i] = simple_user_message_index

\* C37: in every context built during simple_agent.ReactAgent.run the
\* user-task message (id 1) lies on the root-to-current path, whatever
\* backtracks the model requests: an iteration that starts with the task on
\* the path and goes on to the next leaves the task on the path.
C37_TaskStaysInContext ==
  [][(SimpleContinues /\ TaskVisible(self)) => TaskVisible(self')]_vars


\* ---- the instructions of a backtrack in the next context
\* the step was an add_instructions_and_backtrack(text, at) that returned,
\* called by the driver or, through the tool, by the model in an iteration
\* of run that goes on
BacktrackReturned(text, at) ==
  \/ /\ last_op'.name = "backtrack" /\ ops' = ops + 1 /\ exc' = ""
     /\ text = <<"retry">> /\ at = <<last_op'.at>>
  \/ /\ pc = "running" /\ last_op' = Op("iteration", "") /\ ops' = ops + 1
     /\ pc' = "running"
     /\ Len(called') = 1 /\ ~called'[1].raised
     /\ called'[1].name = <<"add_instructions_and_backtrack">>
     /\ \A p \in {parse(response')} :
          text = p.arguments[<<"instructions">>] /\ at = p.arguments[<<"at_message_id">>]
\* at names a message of the tree
ValidId(at) ==
  int_ok(at) /\ 0 <= int_of(at) /\ int_of(at) < Len(id_to_message)
\* the context the next LLM call is given
NextContext ==
  IF kind = "simple" THEN simple_build_context(self') ELSE context_string(self')

\* C39: after add_instructions_and_backtrack(instructions, id) has returned
\* for a valid id, the next context sent to the LLM contains the new
\* instructions text, in simple_agent.ReactAgent and in agent.ReactAgent.
C39_InstructionsInNextContext ==
  [][\A text \in {<<"retry">>, <<"pivot">>}, at \in {<<"0">>, <<"1">>, <<"2">>} :
       (BacktrackReturned(text, at) /\ ValidId(at)) =>
         Contains(NextContext, text)]_vars


\* ---- markers in what parse returns
MarkerFree(s) == \A i \in 1..Len(s) : s[i] \notin {BEGIN_CALL, END_CALL, ARG_SEP}

\* C40: for every text parse accepts, neither the function name nor any
\* argument name or value it returns contains the begin marker, the end
\* marker or the argument separator, also when the text is a response to
\* which OpenAIModel.generate appended the stop token.
C40_ParsedCallIsMarkerFree ==
  (kind = "parser" /\ pc = "parsed" /\ decoded[1].ok) =>
    \A p \in {decoded[1]} :
      /\ MarkerFree(p.name)
      /\ \A k \in DOMAIN p.arguments : MarkerFree(k) /\ MarkerFree(p.arguments[k])

====
